---- MODULE Spec2Model ----
(***************************************************************************)
(* Route optimisation engine of backend/services/route_optimizer.py.       *)
(*                                                                         *)
(* Numbers.  A coordinate is a pair <<lng, lat>> of integers: offsets, in  *)
(* units of 100 m, on a local tangent plane, on which the great-circle     *)
(* distance of the Haversine formula is the Euclidean one.  A distance or  *)
(* a cost (a Python float) is a fixed-point integer counting 1/FIX metre,  *)
(* so that the multipliers 1.5, 1.3, 0.7 and the delay factors are exact.  *)
(* Indices.  Python lists are 0-based, TLA+ sequences 1-based: the POI     *)
(* index k of the program is element k+1 of pois, the matrix node i is     *)
(* row i+1.  Routes hold the program's 0-based POI indices.                *)
(***************************************************************************)
EXTENDS Integers, Sequences, FiniteSets, TLC

VARIABLES
    ORTOOLS_AVAILABLE,  \* module flag set once by the guarded import
    op,                 \* "idle", or the operation that has just returned
    pois,               \* argument: the POI list
    start_location,     \* argument: the start coordinate
    distance_matrix,    \* argument: the distance matrix as passed in (<<>>: None)
    weather_data,       \* argument: the weather context
    traffic_data,       \* argument: the traffic context
    solver,             \* what the OR-Tools backend did, one entry per run
    heap,               \* the list objects alive when the operation returned
    refs,               \* addresses of the matrices: argument, returned, base, fastest
    solved_by,          \* which algorithm produced each returned order
    cost_matrices,      \* the int_matrix of each _solve_with_ortools run
    objectives,         \* the routing model's cost of the solution of each run
    amap_service,       \* argument: the gate lookup service and its answers
    raised,             \* the exception that reached the caller, if any
    route_arg,          \* argument: the route of _calculate_route_stats
    days,               \* argument: the number of days (_distribute_pois_to_days)
    loop,               \* the local variables of a greedy loop in progress
    calls,              \* per thread, the call it is making on the one RouteOptimizer
    frames,             \* per call frame, the local variables of the call
    result              \* the returned value

vars == <<ORTOOLS_AVAILABLE, op, pois, start_location, distance_matrix,
          weather_data, traffic_data, solver, heap, refs, solved_by,
          cost_matrices, objectives, amap_service, raised, route_arg, days,
          loop, calls, frames, result>>

(***************************************************************************)
(* Bounds of the model.                                                    *)
(***************************************************************************)
MaxN == 3          \* POIs in one optimize_route / greedy / matrix request
MaxWeighN == 2     \* POIs in one _apply_weights call
MaxMultiN == 2     \* POIs in one optimize_route_multi_strategy request
MaxStops == 3      \* stops in one optimize_gates_for_sequence call
MaxTrip == 5       \* POIs in one _distribute_pois_to_days call
MaxDays == 3       \* days in one _distribute_pois_to_days call

(***************************************************************************)
(* Fixed-point arithmetic.                                                 *)
(***************************************************************************)
IntScale == 1000                 \* int_matrix = weighted * 1000
FIX == 10 * IntScale             \* fixed-point units per metre
Metres(d) == d * FIX

\* v * num / den without leaving 32 bits
MulRat(v, f) == (v \div f[2]) * f[1] + ((v % f[2]) * f[1]) \div f[2]

RECURSIVE NewtonSqrt(_, _)
NewtonSqrt(x, r) ==
    LET next == (r + x \div r) \div 2
    IN  IF next >= r THEN r
        ELSE CHOOSE root \in {NewtonSqrt(x, n) : n \in {next}} : TRUE
\* floor of the square root
ISqrt(x) == IF x = 0 THEN 0 ELSE NewtonSqrt(x, x)

(***************************************************************************)
(* _calculate_distance: R * c of the Haversine formula, in metres.  On the *)
(* tangent plane, with coordinates in units of 100 m, that is              *)
(* 100 * sqrt(dlng^2 + dlat^2), here rounded down to a whole metre.        *)
(***************************************************************************)
calculate_distance(loc1, loc2) ==
    LET delta_lng == loc2[1] - loc1[1]
        delta_lat == loc2[2] - loc1[2]
    IN  Metres(ISqrt(10000 * (delta_lng * delta_lng + delta_lat * delta_lat)))

Loc(poi) == <<poi.lng, poi.lat>>

(***************************************************************************)
(* A POI is a dictionary: a missing key is a missing field, poi.get('lng') *)
(* is then None, and radians(None) or None - x in _calculate_distance      *)
(* raises TypeError.                                                       *)
(***************************************************************************)
NoException == "none"
TypeError == "TypeError"
ZeroDivisionError == "ZeroDivisionError"

HasCoordinates(poi) == {"lng", "lat"} \subseteq DOMAIN poi

(***************************************************************************)
(* min(unvisited, key=...): the first minimal element in iteration order.  *)
(* unvisited is set(range(n)) less removed elements; small ints hash to    *)
(* themselves, so CPython iterates it in ascending order.                  *)
(***************************************************************************)
NearestFarIndexFirst(unvisited, key) ==
    CHOOSE i \in unvisited :
        \A j \in unvisited : key[i] < key[j] \/ (key[i] = key[j] /\ i >= j)

NearestIdx(unvisited, key) ==
    CHOOSE i \in unvisited :
        \A j \in unvisited : key[i] < key[j] \/ (key[i] = key[j] /\ i <= j)

RECURSIVE GreedyLoop(_, _, _, _)
GreedyLoop(ps, unvisited, route, current_location) ==
    IF unvisited = {} THEN route
    ELSE LET key == [idx \in unvisited |->
                        calculate_distance(current_location, Loc(ps[idx + 1]))]
             nearest_idx == NearestIdx(unvisited, key)
         IN  GreedyLoop(ps, unvisited \ {nearest_idx},
                        Append(route, nearest_idx), Loc(ps[nearest_idx + 1]))

greedy_nearest_neighbor(ps, start) ==
    IF ps = <<>> THEN <<>>
    ELSE GreedyLoop(ps, 0 .. Len(ps) - 1, <<>>, start)

\* The loop one iteration at a time.  NoLoop: no loop is running
NoLoop == [unvisited |-> {}, route |-> <<>>, current_location |-> <<>>]

\* unvisited = set(range(len(pois))); route = []; current_location = start
greedy_begin(ps, start) ==
    [unvisited |-> 0 .. Len(ps) - 1, route |-> <<>>, current_location |-> start]

IterateWithoutRemoving(ps, l) ==
    LET key == [idx \in l.unvisited |->
                   calculate_distance(l.current_location, Loc(ps[idx + 1]))]
        nearest_idx == NearestIdx(l.unvisited, key)
    IN  [l EXCEPT !.current_location = Loc(ps[nearest_idx + 1])]

\* one pass of the body of "while unvisited"
greedy_iterate(ps, l) ==
    LET key == [idx \in l.unvisited |->
                   calculate_distance(l.current_location, Loc(ps[idx + 1]))]
        nearest_idx == NearestIdx(l.unvisited, key)
    IN  [unvisited |-> l.unvisited \ {nearest_idx},
         route |-> Append(l.route, nearest_idx),
         current_location |-> Loc(ps[nearest_idx + 1])]

\* The first min() of the loop computes the key of every POI, so the call
\* raises as soon as one POI has no coordinates.
greedy_raises(ps) ==
    IF \E idx \in 0 .. Len(ps) - 1 : ~HasCoordinates(ps[idx + 1])
    THEN TypeError ELSE NoException

(***************************************************************************)
(* _build_distance_matrix                                                  *)
(***************************************************************************)
Locations(ps, start) == <<start>> \o [k \in 1 .. Len(ps) |-> Loc(ps[k])]

BuildFromFirstRow(ps, start) ==
    LET locations == Locations(ps, start)
        n == Len(locations)
    IN  [i \in 1 .. n |-> [j \in 1 .. n |->
            IF i # j THEN calculate_distance(locations[1], locations[j]) ELSE 0]]

build_distance_matrix(ps, start) ==
    LET locations == Locations(ps, start)
        n == Len(locations)
    IN  [i \in 1 .. n |-> [j \in 1 .. n |->
            IF i # j THEN calculate_distance(locations[i], locations[j]) ELSE 0]]

\* Every location is paired with another one (the start at least), so the
\* call raises as soon as one POI has no coordinates.
build_raises(ps) ==
    IF \E k \in 1 .. Len(ps) : ~HasCoordinates(ps[k])
    THEN TypeError ELSE NoException

(***************************************************************************)
(* List objects.  heap[a] is the list at address a: a row holds costs, a   *)
(* matrix holds the addresses of its rows.                                 *)
(***************************************************************************)
ReadMatrix(h, ref) == [i \in 1 .. Len(h[ref]) |-> h[h[ref][i]]]

\* matrix m stored as new lists, rows first, and the matrix's address
AllocMatrix(h, m) ==
    [heap |-> h \o m \o << [i \in 1 .. Len(m) |-> Len(h) + i] >>,
     ref |-> Len(h) + Len(m) + 1]
HeapWith(m) == AllocMatrix(<<>>, m)

\* no matrix held
NoRefs == [arg |-> 0, ret |-> 0, base |-> 0, fastest |-> 0]

\* list(distance_matrix): a new outer list over the same rows
CopyOuterOnly(h, ref) == [heap |-> Append(h, h[ref]), ref |-> Len(h) + 1]

\* [row[:] for row in distance_matrix]: new rows and a new outer list
CopyMatrix(h, ref) ==
    LET n == Len(h[ref])
        base == Len(h)
    IN  [heap |-> h \o [i \in 1 .. n |-> h[h[ref][i]]]
                    \o << [i \in 1 .. n |-> base + i] >>,
         ref |-> base + n + 1]

\* the cells of the matrix at ref assigned in place, row by row
WriteMatrix(h, ref, m) ==
    [a \in 1 .. Len(h) |->
        IF \E i \in 1 .. Len(h[ref]) : h[ref][i] = a
        THEN m[CHOOSE i \in 1 .. Len(h[ref]) : h[ref][i] = a]
        ELSE h[a]]

(***************************************************************************)
(* _apply_weights                                                          *)
(***************************************************************************)
\* the outdoor categories (scenic spot, park or square, tourist attraction,
\* historic site); "t in poi_type" is membership here
outdoor_types == {"scenic_spot", "park_square", "tourist_attraction", "historic_site"}
WALK_LIMIT == 1000               \* weighted_matrix[i][j] < 1000
DRIVE_LIMIT == 5000              \* weighted_matrix[i][j] > 5000
OUTDOOR_FACTOR == <<15, 10>>     \* *= 1.5
WALK_FACTOR == <<13, 10>>        \* *= 1.3

\* weather_data is None, traffic_data is None
NoWeather == [given |-> FALSE, forecasts |-> <<>>]
NoTraffic == [given |-> FALSE, congestion |-> FALSE, delay_factor |-> <<10, 10>>]

\* dayweather texts: light rain, heavy snow, hail, sunny, cloudy
RainyWeathers == {"light_rain", "heavy_snow", "hail"}
\* any(keyword in day_weather for keyword in [rain, snow, hail])
is_rainy(weather) ==
    /\ weather.given
    /\ weather.forecasts # <<>>
    /\ weather.forecasts[1].casts # <<>>
    /\ weather.forecasts[1].casts[1].dayweather \in RainyWeathers

IsOutdoor(poi) == poi.type \in outdoor_types

\* one pass of the weather loop over cell (i, j), 1-based: node j - 1, POI j - 2
WeatherCell(i, j, v, ps) ==
    IF i = j THEN v
    ELSE LET penalised == IF j > 1 /\ j - 2 < Len(ps) /\ IsOutdoor(ps[j - 1])
                          THEN MulRat(v, OUTDOOR_FACTOR) ELSE v
         IN  IF penalised < Metres(WALK_LIMIT)
             THEN MulRat(penalised, WALK_FACTOR) ELSE penalised

\* one pass of the traffic loop over cell (i, j)
TrafficCell(i, j, v, traffic) ==
    IF i # j /\ v > Metres(DRIVE_LIMIT) THEN MulRat(v, traffic.delay_factor) ELSE v

\* for i, for j over the cells of weighted_matrix
WeatherLoop(m, ps) ==
    [i \in 1 .. Len(m) |-> [j \in 1 .. Len(m[i]) |-> WeatherCell(i, j, m[i][j], ps)]]
TrafficLoop(m, traffic) ==
    [i \in 1 .. Len(m) |-> [j \in 1 .. Len(m[i]) |-> TrafficCell(i, j, m[i][j], traffic)]]

CongestedWheneverGiven(traffic) == traffic.given

\* traffic_data truthy and traffic_data.get('congestion', False)
is_congested(traffic) == traffic.given /\ traffic.congestion

apply_weights(h, ref, ps, weather, traffic) ==
    LET copy == CopyMatrix(h, ref)
        weighted_matrix == copy.ref
        h1 == IF is_rainy(weather)
              THEN WriteMatrix(copy.heap, weighted_matrix,
                               WeatherLoop(ReadMatrix(copy.heap, weighted_matrix), ps))
              ELSE copy.heap
        h2 == IF is_congested(traffic)
              THEN WriteMatrix(h1, weighted_matrix,
                               TrafficLoop(ReadMatrix(h1, weighted_matrix), traffic))
              ELSE h1
    IN  [heap |-> h2, ref |-> weighted_matrix]

\* the matrix _apply_weights returns for a matrix value
WeightedMatrix(m, ps, weather, traffic) ==
    LET caller == HeapWith(m)
        r == apply_weights(caller.heap, caller.ref, ps, weather, traffic)
    IN  ReadMatrix(r.heap, r.ref)

(***************************************************************************)
(* _solve_with_ortools.  The backend (pywrapcp) is outside the repository: *)
(* a run ends in one of                                                    *)
(*   "unavailable"  the import failed, pywrapcp is an unbound name         *)
(*   "raise"        the backend raised                                     *)
(*   "none"         SolveWithParameters returned no solution               *)
(*   "solution"     a solution: the routing model has one vehicle, depot 0 *)
(*                  and no disjunction, so NextVar leads from Start(0)     *)
(*                  through every other node exactly once to the end       *)
(* and which solution it is is the backend's choice.                       *)
(***************************************************************************)
Perms(S) == {p \in [1 .. Cardinality(S) -> S] : \A a, b \in DOMAIN p : p[a] = p[b] => a = b}

\* the nodes met from routing.Start(0) until routing.IsEnd
Tours(n) == {<<0>> \o p : p \in Perms(1 .. n - 1)}

Run(kind, tour) == [kind |-> kind, tour |-> tour]
SolverRuns(n) ==
    IF ORTOOLS_AVAILABLE
    THEN {Run("raise", <<>>), Run("none", <<>>)} \cup {Run("solution", t) : t \in Tours(n)}
    ELSE {Run("unavailable", <<>>)}

\* manager.IndexToNode for RoutingIndexManager(n, 1, depot): the indices
\* 0 .. n-1 are the nodes, and index n, where the one vehicle's route ends,
\* is the depot again
IndexToNode(index, n, depot) == IF index = n THEN depot ELSE index

\* distance_callback, the arc cost evaluator of the vehicle
distance_callback(int_matrix, from_index, to_index) ==
    LET n == Len(int_matrix)
    IN  int_matrix[IndexToNode(from_index, n, 0) + 1][IndexToNode(to_index, n, 0) + 1]

\* the arc costs along the indices of a route
RECURSIVE ArcCosts(_, _)
ArcCosts(int_matrix, indices) ==
    IF Len(indices) < 2 THEN 0
    ELSE distance_callback(int_matrix, indices[1], indices[2])
            + ArcCosts(int_matrix, Tail(indices))

OpenPathObjective(int_matrix, tour) == ArcCosts(int_matrix, tour)

\* What the routing model charges for a solution: the arcs from Start(0)
\* through the nodes to End(0)
Objective(int_matrix, tour) == ArcCosts(int_matrix, Append(tour, Len(int_matrix)))

\* (np.array(weighted_matrix) * 1000).astype(int): truncation toward zero
ToIntMatrix(m) ==
    [i \in 1 .. Len(m) |-> [j \in 1 .. Len(m[i]) |-> m[i][j] \div (FIX \div IntScale)]]

RECURSIVE ReadBackKeepingNodes(_)
ReadBackKeepingNodes(tour) ==
    IF tour = <<>> THEN <<>> ELSE <<Head(tour)>> \o ReadBackKeepingNodes(Tail(tour))

\* while not IsEnd(index): if node > 0: route.append(node - 1)
RECURSIVE ReadBack(_)
ReadBack(tour) ==
    IF tour = <<>> THEN <<>>
    ELSE LET node == Head(tour)
         IN  (IF node > 0 THEN <<node - 1>> ELSE <<>>) \o ReadBack(Tail(tour))

\* Steps 1 to 3 of the try block: the matrix handed to the backend, or the
\* exception of step 1.  dm_ref = 0: distance_matrix is None
CostMatrix(h, ps, start, dm_ref, weather, traffic) ==
    IF dm_ref = 0 /\ build_raises(ps) # NoException
    THEN [heap |-> h, int_matrix |-> <<>>, raised |-> build_raises(ps)]
    ELSE LET given == IF dm_ref = 0
                      THEN AllocMatrix(h, build_distance_matrix(ps, start))
                      ELSE [heap |-> h, ref |-> dm_ref]
             weighted == apply_weights(given.heap, given.ref, ps, weather, traffic)
         IN  [heap |-> weighted.heap,
              int_matrix |-> ToIntMatrix(ReadMatrix(weighted.heap, weighted.ref)),
              raised |-> NoException]

\* return self._greedy_nearest_neighbor(pois, start_location), outside any try
GreedyReturn(h, int_matrix, ps, start) ==
    IF greedy_raises(ps) # NoException
    THEN [heap |-> h, int_matrix |-> int_matrix, by |-> "greedy", route |-> <<>>,
          raised |-> greedy_raises(ps)]
    ELSE [heap |-> h, int_matrix |-> int_matrix, by |-> "greedy",
          route |-> greedy_nearest_neighbor(ps, start), raised |-> NoException]

SolveEmptyOnFailure(cost, ps, start, run) ==
    [heap |-> cost.heap, int_matrix |-> cost.int_matrix, by |-> "ortools",
     route |-> IF cost.raised = NoException /\ run.kind = "solution"
               THEN ReadBack(run.tour) ELSE <<>>,
     raised |-> NoException]

\* Steps 4 to 8 and the except clause, cost being the outcome of steps 1 to 3
solve_with_ortools(cost, ps, start, run) ==
    IF cost.raised = NoException /\ run.kind = "solution"
    THEN [heap |-> cost.heap, int_matrix |-> cost.int_matrix, by |-> "ortools",
          route |-> ReadBack(run.tour), raised |-> NoException]
    ELSE GreedyReturn(cost.heap, cost.int_matrix, ps, start)

\* the objective value of the solution that was read back, if one was
SolutionObjective(r, run) ==
    IF r.by = "ortools" THEN <<Objective(r.int_matrix, run.tour)>> ELSE <<>>

(***************************************************************************)
(* optimize_route                                                          *)
(***************************************************************************)
NotRun == Run("not_run", <<>>)

OptimizeWithoutEmptyCheck(h, ps, start, cost, run) ==
    IF ORTOOLS_AVAILABLE /\ Len(ps) > 2
    THEN solve_with_ortools(cost, ps, start, run)
    ELSE GreedyReturn(h, <<>>, ps, start)

\* cost: what steps 1 to 3 of _solve_with_ortools compute if it is called
optimize_route(h, ps, start, cost, run) ==
    IF ps = <<>>
    THEN [heap |-> h, route |-> <<>>, by |-> "nothing", int_matrix |-> <<>>,
          raised |-> NoException]
    ELSE IF ORTOOLS_AVAILABLE /\ Len(ps) > 2
         THEN solve_with_ortools(cost, ps, start, run)
         ELSE GreedyReturn(h, <<>>, ps, start)

(***************************************************************************)
(* _calculate_route_stats and reorder_pois.  A duration is in 1/FIX s:     *)
(* (distance / 1000) / speed * 3600 is distance * 3.6 / speed.             *)
(***************************************************************************)
STATS_WALK_LIMIT == 1000         \* if distance < 1000
STATS_TRANSIT_LIMIT == 5000      \* elif distance < 5000
WALK_SPEED == <<72, 100>>        \* / 5 * 3600 / 1000
TRANSIT_SPEED == <<18, 100>>     \* / 20 * 3600 / 1000
DRIVE_SPEED == <<9, 100>>        \* / 40 * 3600 / 1000

LegDuration(distance) ==
    IF distance < Metres(STATS_WALK_LIMIT) THEN MulRat(distance, WALK_SPEED)
    ELSE IF distance < Metres(STATS_TRANSIT_LIMIT) THEN MulRat(distance, TRANSIT_SPEED)
    ELSE MulRat(distance, DRIVE_SPEED)

RECURSIVE StatsLoop(_, _, _, _, _)
StatsLoop(order, ps, current_loc, total_distance, total_duration) ==
    IF order = <<>>
    THEN [total_distance |-> total_distance, total_duration |-> total_duration]
    ELSE LET poi_idx == Head(order)
         IN  IF poi_idx < Len(ps)
             THEN LET next_loc == Loc(ps[poi_idx + 1])
                      distance == calculate_distance(current_loc, next_loc)
                  IN  StatsLoop(Tail(order), ps, next_loc, total_distance + distance,
                                total_duration + LegDuration(distance))
             ELSE StatsLoop(Tail(order), ps, current_loc, total_distance, total_duration)

StatsWithReturnLeg(order, ps, start) ==
    LET open == StatsLoop(order, ps, start, 0, 0)
        back == IF order = <<>> THEN 0
                ELSE calculate_distance(Loc(ps[order[Len(order)] + 1]), start)
    IN  [total_distance |-> open.total_distance + back,
         total_duration |-> open.total_duration + LegDuration(back)]

calculate_route_stats(order, ps, start) == StatsLoop(order, ps, start, 0, 0)

reorder_pois(ps, route) == [k \in 1 .. Len(route) |-> ps[route[k] + 1]]

(***************************************************************************)
(* optimize_route_multi_strategy                                           *)
(***************************************************************************)
FASTEST_LIMIT == 5000            \* fastest_weighted_matrix[i][j] > 5000
FASTEST_FACTOR == <<7, 10>>      \* *= 0.7

FastestLoopFromLimit(m) ==
    [i \in 1 .. Len(m) |-> [j \in 1 .. Len(m[i]) |->
        IF m[i][j] >= Metres(FASTEST_LIMIT) THEN MulRat(m[i][j], FASTEST_FACTOR)
        ELSE m[i][j]]]

\* for i, for j: if m[i][j] > 5000: m[i][j] *= 0.7
FastestLoop(m) ==
    [i \in 1 .. Len(m) |-> [j \in 1 .. Len(m[i]) |->
        IF m[i][j] > Metres(FASTEST_LIMIT) THEN MulRat(m[i][j], FASTEST_FACTOR)
        ELSE m[i][j]]]

Strategy(route, stats, ps) ==
    [route |-> route, total_distance |-> stats.total_distance,
     total_duration |-> stats.total_duration, ordered_pois |-> reorder_pois(ps, route)]

EmptyStrategy == [route |-> <<>>, total_distance |-> 0, total_duration |-> 0]

EmptyResult ==
    [shortest |-> EmptyStrategy, fastest |-> EmptyStrategy, balanced |-> EmptyStrategy]

FastestInPlace(h, base_distance_matrix) ==
    [heap |-> WriteMatrix(h, base_distance_matrix,
                          FastestLoop(ReadMatrix(h, base_distance_matrix))),
     ref |-> base_distance_matrix]

\* fastest_weighted_matrix: a copy of the base matrix, discounted in place
FastestWeightedMatrix(h, base_distance_matrix) ==
    LET copy == CopyMatrix(h, base_distance_matrix)
    IN  [heap |-> WriteMatrix(copy.heap, copy.ref,
                              FastestLoop(ReadMatrix(copy.heap, copy.ref))),
         ref |-> copy.ref]

\* the except clause: one greedy order for the three strategies
MultiFallback(ps, start) ==
    LET fallback == GreedyReturn(<<>>, <<>>, ps, start)
    IN  IF fallback.raised # NoException
        THEN [raised |-> fallback.raised, result |-> <<>>]
        ELSE [raised |-> NoException,
              result |-> LET stats == calculate_route_stats(fallback.route, ps, start)
                             strategy == Strategy(fallback.route, stats, ps)
                         IN  [shortest |-> strategy, fastest |-> strategy,
                              balanced |-> strategy]]

MultiResultFromOneRoute(ps, start, shortest_route, fastest_route, balanced_route) ==
    LET strategy == Strategy(fastest_route,
                             calculate_route_stats(fastest_route, ps, start), ps)
    IN  [shortest |-> strategy, fastest |-> strategy, balanced |-> strategy]

\* the dictionary returned after the three runs
MultiResult(ps, start, shortest_route, fastest_route, balanced_route) ==
    [shortest |-> Strategy(shortest_route,
                           calculate_route_stats(shortest_route, ps, start), ps),
     fastest |-> Strategy(fastest_route,
                          calculate_route_stats(fastest_route, ps, start), ps),
     balanced |-> Strategy(balanced_route,
                           calculate_route_stats(balanced_route, ps, start), ps)]

(***************************************************************************)
(* optimize_gates_for_sequence.  A 'location' is the text "lng,lat": here  *)
(* <<lng, lat, fmt>>, fmt telling two spellings of the same numbers apart  *)
(* ("116.4" and "116.40"), and <<>> the empty text.  Parsing it            *)
(* (map(float, text.split(','))) keeps the numbers and drops the spelling. *)
(***************************************************************************)
LocationText(lng, lat, fmt) == <<lng, lat, fmt>>
EmptyText == <<>>
ParseLocation(text) == <<text[1], text[2]>>

Get(dict, key, default) == IF key \in DOMAIN dict THEN dict[key] ELSE default

\* AmapService.get_poi_gates: the gates found, and whether they are several
GatesData(gates) == [gates |-> gates, has_multiple_gates |-> Len(gates) > 1]
NoService == [given |-> FALSE, gates |-> <<>>]      \* amap_service=None

LARGE_VENUE == 500               \* if max_gate_distance > 500

GateDistance(g, location) == calculate_distance(ParseLocation(g.location), location)

\* min(gates, key=...): the first of the nearest gates, in list order
NearestGate(gates, location) ==
    gates[CHOOSE a \in 1 .. Len(gates) : \A b \in 1 .. Len(gates) :
            \/ GateDistance(gates[a], location) < GateDistance(gates[b], location)
            \/ /\ GateDistance(gates[a], location) = GateDistance(gates[b], location)
               /\ a <= b]

\* gate_distances after the (stable) sort by distance
SortedGates(gates, location) ==
    LET order == CHOOSE p \in Perms(1 .. Len(gates)) :
                    \A a, b \in 1 .. Len(gates) : a < b =>
                        \/ GateDistance(gates[p[a]], location)
                              < GateDistance(gates[p[b]], location)
                        \/ /\ GateDistance(gates[p[a]], location)
                                = GateDistance(gates[p[b]], location)
                           /\ p[a] < p[b]
    IN  [k \in 1 .. Len(gates) |-> gates[order[k]]]

\* max(... for g1 in gates for g2 in gates if g1 != g2)
max_gate_distance(gates) ==
    LET between == {GateDistance(gates[a], ParseLocation(gates[b].location)) :
                        <<a, b>> \in {pair \in (1 .. Len(gates)) \X (1 .. Len(gates)) :
                                        gates[pair[1]] # gates[pair[2]]}}
    IN  CHOOSE d \in between : \A e \in between : e <= d

\* the dictionary stored as entry_gate / exit_gate of a stop with several gates
GateEntry(gate) ==
    [name |-> gate.name, location |-> gate.location,
     lng |-> ParseLocation(gate.location)[1], lat |-> ParseLocation(gate.location)[2],
     address |-> gate.address]

SingleGateStopLeavingByGate(poi, gates) ==
    IF gates = <<>> THEN poi
    ELSE LET main_location == IF Get(poi, "location", EmptyText) # EmptyText
                              THEN poi.location ELSE gates[1].location
         IN  ("entry_gate" :> [name |-> <<poi.name, "main_entrance">>,
                               location |-> main_location,
                               lng |-> ParseLocation(main_location)[1],
                               lat |-> ParseLocation(main_location)[2]])
                 @@ ("exit_gate" :> GateEntry(gates[1])) @@ poi

\* a stop with no gate or one gate
SingleGateStop(poi, gates) ==
    LET main_location == IF gates # <<>>
                         THEN IF Get(poi, "location", EmptyText) # EmptyText
                              THEN poi.location ELSE gates[1].location
                         ELSE EmptyText
        entry_gate == [name |-> <<poi.name, "main_entrance">>,
                       location |-> main_location,
                       lng |-> ParseLocation(main_location)[1],
                       lat |-> ParseLocation(main_location)[2]]
    IN  IF main_location # EmptyText
        THEN ("entry_gate" :> entry_gate) @@ ("exit_gate" :> entry_gate) @@ poi
        ELSE poi

PrevLocationOfPoi(optimized_sequence, i) ==
    IF i > 0 THEN Loc(optimized_sequence[i]) ELSE <<>>

\* prev_location: where the stop before was left; <<>> is None
PrevLocation(optimized_sequence, i) ==
    IF i > 0
    THEN LET prev_poi == optimized_sequence[i]
         IN  IF "exit_gate" \in DOMAIN prev_poi
             THEN <<prev_poi.exit_gate.lng, prev_poi.exit_gate.lat>>
             ELSE Loc(prev_poi)
    ELSE <<>>

\* next_location: the coordinates of the stop after; <<>> is None
NextLocation(poi_sequence, i) ==
    IF i < Len(poi_sequence) - 1 THEN Loc(poi_sequence[i + 2]) ELSE <<>>

EntryGate(gates, prev_location) ==
    IF prev_location # <<>> THEN NearestGate(gates, prev_location) ELSE gates[1]

ExitWithoutTraversal(gates, has_multiple_gates, entry_gate, next_location) ==
    IF next_location # <<>>
    THEN SortedGates(gates, next_location)[1]
    ELSE entry_gate

ExitByTheEntry(gates, has_multiple_gates, entry_gate, next_location) == entry_gate

ExitGate(gates, has_multiple_gates, entry_gate, next_location) ==
    IF next_location # <<>>
    THEN LET gate_distances == SortedGates(gates, next_location)
             exit_gate == gate_distances[1]
         IN  IF /\ has_multiple_gates
                /\ Len(gate_distances) > 1
                /\ entry_gate.location = exit_gate.location
                /\ max_gate_distance(gates) > Metres(LARGE_VENUE)
             THEN gate_distances[2]
             ELSE exit_gate
    ELSE entry_gate

\* a stop with several gates; i is the 0-based position of the stop
MultiGateStop(poi_sequence, optimized_sequence, i, gates_data) ==
    LET poi == poi_sequence[i + 1]
        gates == gates_data.gates
        entry_gate == EntryGate(gates, PrevLocation(optimized_sequence, i))
        exit_gate == ExitGate(gates, gates_data.has_multiple_gates, entry_gate,
                              NextLocation(poi_sequence, i))
    IN  ("entry_gate" :> GateEntry(entry_gate))
            @@ ("exit_gate" :> GateEntry(exit_gate)) @@ poi

RECURSIVE GateLoopSkipping(_, _, _, _)
GateLoopSkipping(poi_sequence, answers, i, optimized_sequence) ==
    IF i = Len(poi_sequence) THEN optimized_sequence
    ELSE LET gates_data == answers[i + 1]
         IN  IF Len(gates_data.gates) <= 1
             THEN GateLoopSkipping(poi_sequence, answers, i + 1, optimized_sequence)
             ELSE GateLoopSkipping(poi_sequence, answers, i + 1,
                      Append(optimized_sequence,
                             MultiGateStop(poi_sequence, optimized_sequence, i, gates_data)))

\* for i, poi in enumerate(poi_sequence); answers[i + 1] is what get_poi_gates
\* returns for stop i
RECURSIVE GateLoop(_, _, _, _)
GateLoop(poi_sequence, answers, i, optimized_sequence) ==
    IF i = Len(poi_sequence) THEN optimized_sequence
    ELSE LET gates_data == answers[i + 1]
             stop == IF Len(gates_data.gates) <= 1
                     THEN SingleGateStop(poi_sequence[i + 1], gates_data.gates)
                     ELSE MultiGateStop(poi_sequence, optimized_sequence, i, gates_data)
         IN  GateLoop(poi_sequence, answers, i + 1, Append(optimized_sequence, stop))

optimize_gates_for_sequence(poi_sequence, service) ==
    IF poi_sequence = <<>> \/ ~service.given
    THEN poi_sequence
    ELSE GateLoop(poi_sequence, service.gates, 0, <<>>)

(***************************************************************************)
(* The objects of optimize_gates_for_sequence: heap[a] is the dictionary   *)
(* or the list at address a, a list holding the addresses of its elements. *)
(***************************************************************************)
\* the caller's POI dictionaries, then the list of them
AllocList(dicts) ==
    [heap |-> Append(dicts, [k \in 1 .. Len(dicts) |-> k]), ref |-> Len(dicts) + 1]
ReadList(h, ref) == [k \in 1 .. Len(h[ref]) |-> h[h[ref][k]]]

\* poi_copy = poi
SameDict(h, ref) == [heap |-> h, ref |-> ref]

\* poi_copy = poi.copy(): a new dictionary with the same items
CopyDict(h, ref) == [heap |-> Append(h, h[ref]), ref |-> Len(h) + 1]

\* The loop as it acts on objects: for each stop a copy is made, becomes
\* stops[i + 1] (the items GateLoop computes for it) and is appended to
\* optimized_sequence, a new list
RECURSIVE StoreStops(_, _, _, _, _)
StoreStops(h, poi_refs, stops, i, optimized_refs) ==
    IF i = Len(stops)
    THEN [heap |-> Append(h, optimized_refs), ref |-> Len(h) + 1]
    ELSE LET poi_copy == CopyDict(h, poi_refs[i + 1])
         IN  StoreStops([poi_copy.heap EXCEPT ![poi_copy.ref] = stops[i + 1]],
                        poi_refs, stops, i + 1, Append(optimized_refs, poi_copy.ref))

\* the heap after the call and the address of the returned list
GateObjects(h, sequence_ref, service) ==
    IF h[sequence_ref] = <<>> \/ ~service.given
    THEN [heap |-> h, ref |-> sequence_ref]
    ELSE StoreStops(h, h[sequence_ref],
                    GateLoop(ReadList(h, sequence_ref), service.gates, 0, <<>>), 0, <<>>)

(***************************************************************************)
(* UserPoiItineraryBuilder._distribute_pois_to_days                        *)
(* (user_poi_itinerary_builder.py).  pois[start_idx:end_idx] is the        *)
(* subsequence start_idx + 1 .. end_idx.                                   *)
(***************************************************************************)
RECURSIVE DayLoopDroppingRemainder(_, _, _, _, _)
DayLoopDroppingRemainder(ps, day_count, day, start_idx, days_so_far) ==
    IF day = day_count THEN days_so_far
    ELSE LET count == Len(ps) \div day_count
             end_idx == start_idx + count
         IN  DayLoopDroppingRemainder(ps, day_count, day + 1, end_idx,
                 Append(days_so_far, SubSeq(ps, start_idx + 1, end_idx)))

\* for day in range(days), with the result list so far
RECURSIVE DayLoop(_, _, _, _, _)
DayLoop(ps, day_count, day, start_idx, days_so_far) ==
    IF day = day_count THEN days_so_far
    ELSE LET total == Len(ps)
             base == total \div day_count
             remainder == total % day_count
             count == base + (IF day < remainder THEN 1 ELSE 0)
             end_idx == start_idx + count
         IN  DayLoop(ps, day_count, day + 1, end_idx,
                     Append(days_so_far, SubSeq(ps, start_idx + 1, end_idx)))

\* total // days raises when days is 0
distribute_raises(day_count) ==
    IF day_count = 0 THEN ZeroDivisionError ELSE NoException

distribute_pois_to_days(ps, day_count) == DayLoop(ps, day_count, 0, 0, <<>>)

(***************************************************************************)
(* Inputs.                                                                 *)
(***************************************************************************)
Poi(name, lng, lat, type) == [name |-> name, lng |-> lng, lat |-> lat, type |-> type]

\* The places of the sequencing requests: A, B, C one unit (100 m) apart, and
\* E exactly 5000 m from A.
Places == { Poi("A", 0, 0, "scenic_spot"), Poi("B", 0, 1, "park_square"),
            Poi("C", 1, 0, "museum"), Poi("E", 40, 30, "historic_site") }

Starts == { <<-1, -1>>, <<0, 0>> }

RECURSIVE SeqsUpTo(_, _)
SeqsUpTo(S, n) ==
    IF n = 0 THEN {<<>>}
    ELSE LET shorter == SeqsUpTo(S, n - 1)
         IN  shorter \cup {Append(s, x) : s \in {t \in shorter : Len(t) = n - 1}, x \in S}

Requests == SeqsUpTo(Places, MaxN)
\* The places of the optimize_route requests: two outdoor ones and an indoor
\* one; those of the optimize_route_multi_strategy requests: E is 5000 m
\* from A, and the indoor F 5080 m from A and 100 m from E.
RoutePlaces == {p \in Places : p.name \in {"B", "C", "E"}}
MultiPlaces == {p \in Places : p.name \in {"A", "E"}} \cup {Poi("F", 41, 30, "museum")}
RouteRequests == SeqsUpTo(RoutePlaces, MaxN)

\* POIs without a lng, or without a lat
NoLng == [name |-> "U", lat |-> 1, type |-> "museum"]
NoLat == [name |-> "V", lng |-> 0, type |-> "scenic_spot"]
UnlocatedRequests ==
    {ps \in SeqsUpTo({Poi("A", 0, 0, "scenic_spot"), NoLng}, MaxN) :
        \E k \in 1 .. Len(ps) : ~HasCoordinates(ps[k])}
        \cup {<<NoLat>>, <<Poi("A", 0, 0, "scenic_spot"), NoLat, NoLng>>}


Forecast(text) ==
    [given |-> TRUE, forecasts |-> << [casts |-> << [dayweather |-> text] >>] >>]
WeatherInputs ==
    { NoWeather,
      [given |-> TRUE, forecasts |-> <<>>],
      [given |-> TRUE, forecasts |-> << [casts |-> <<>>] >>],
      Forecast("sunny"), Forecast("light_rain"), Forecast("heavy_snow") }

Traffic(congestion, factor) ==
    [given |-> TRUE, congestion |-> congestion, delay_factor |-> factor]
TrafficInputs ==
    { NoTraffic, Traffic(FALSE, <<20, 10>>), Traffic(TRUE, <<15, 10>>),
      Traffic(TRUE, <<20, 10>>) }

\* The places of the _apply_weights calls: on one line, 800, 1000, 4000, 5000
\* and 6000 m from the start <<0, 0>>, each of an outdoor or an indoor category.
WeighPlaces ==
    { Poi("W", lng, 0, type) : lng \in {8, 10, 40, 50, 60},
                               type \in {"scenic_spot", "museum"} }
WeighRequests == SeqsUpTo(WeighPlaces, MaxWeighN)

\* A caller's own distance_matrix: road distances along a street grid
RoadMatrix(ps, start) ==
    LET locations == Locations(ps, start)
        Abs(x) == IF x < 0 THEN -x ELSE x
    IN  [i \in 1 .. Len(locations) |-> [j \in 1 .. Len(locations) |->
            Metres(100 * (Abs(locations[i][1] - locations[j][1])
                          + Abs(locations[i][2] - locations[j][2])))]]

\* The caller's matrix covers every POI, also one it has no coordinates of
\* (road distances asked by name): here such a POI lies at <<2, 2>>.
SuppliedMatrix(ps, start) ==
    RoadMatrix([k \in 1 .. Len(ps) |->
                   IF HasCoordinates(ps[k]) THEN ps[k]
                   ELSE Poi(ps[k].name, 2, 2, ps[k].type)], start)

RouteWeathers == {NoWeather, Forecast("light_rain")}
RouteTraffics == {NoTraffic, Traffic(TRUE, <<20, 10>>)}

MultiRequests ==
    SeqsUpTo(MultiPlaces, MaxMultiN)
        \cup {ps \in UnlocatedRequests : Len(ps) <= MaxMultiN}
\* build_itinerary_from_user_pois starts at the first POI (user_pois[0]['lng']
\* raises in the caller when that POI has no coordinates)
MultiStarts(ps) ==
    IF ps = <<>> THEN {<<0, 0>>}
    ELSE IF HasCoordinates(ps[1]) THEN {Loc(ps[1])} ELSE {}

\* The places of the _calculate_route_stats calls: on one line, 800, 1000,
\* 5000 and 6000 m from the start <<0, 0>>; the routes are the orders an
\* optimisation returns, every index once.
StatsPlaces == { Poi("W", lng, 0, "museum") : lng \in {8, 10, 50, 60} }
StatsRequests == SeqsUpTo(StatsPlaces, MaxN)
StatsRoutes(ps) == Perms(0 .. Len(ps) - 1)

\* The POI lists of the _distribute_pois_to_days calls: the optimised order
\* of a trip, told apart by their coordinates; and the numbers of days.
TripPois(n) == [k \in 1 .. n |-> Poi("stop", k, 0, "museum")]
TripRequests == {TripPois(n) : n \in 0 .. MaxTrip}
TripDays == 0 .. MaxDays

\* The stops of the gate requests: three venues on one street, 2 km apart,
\* and a fourth one 1 km north of the middle one.
Stop(name, lng, lat) == [name |-> name, lng |-> lng, lat |-> lat]
WithLocation(poi) == ("location" :> LocationText(poi.lng, poi.lat, 0)) @@ poi
Gate(name, lng, lat, fmt) ==
    [name |-> name, location |-> LocationText(lng, lat, fmt), address |-> ""]

\* What get_poi_gates may answer for a venue: no gate, the main entrance, two
\* gates 100 m, 500 m or 600 m apart, three gates, and gates of which two are
\* the same place spelt differently.
NoGate(poi) == <<>>
OneGate(poi) == <<Gate("main", poi.lng, poi.lat + 1, 0)>>
NearGates(poi) == <<Gate("g1", poi.lng, poi.lat, 0), Gate("g2", poi.lng + 1, poi.lat, 0)>>
EdgeGates(poi) == <<Gate("g1", poi.lng, poi.lat, 0), Gate("g2", poi.lng + 5, poi.lat, 0)>>
FarGates(poi) ==
    <<Gate("west", poi.lng - 3, poi.lat, 0), Gate("east", poi.lng + 3, poi.lat, 0)>>
ThreeGates(poi) == Append(FarGates(poi), Gate("north", poi.lng, poi.lat + 4, 0))
RespeltGates(poi) ==
    <<Gate("west", poi.lng - 3, poi.lat, 0), Gate("west2", poi.lng - 3, poi.lat, 1),
      Gate("east", poi.lng + 3, poi.lat, 0)>>

Visit(poi, gates) == [poi |-> poi, gates_data |-> GatesData(gates)]
Visits ==
    LET P == Stop("P", 0, 0)
        Q == Stop("Q", 20, 0)
        S == Stop("S", -20, 0)
        T == Stop("T", 0, 10)
    IN  { Visit(P, NoGate(P)), Visit(WithLocation(P), NoGate(P)),
          Visit(P, OneGate(P)), Visit(WithLocation(P), OneGate(P)),
          Visit(WithLocation(P), NearGates(P)), Visit(WithLocation(P), EdgeGates(P)),
          Visit(WithLocation(P), FarGates(P)), Visit(WithLocation(P), ThreeGates(P)),
          Visit(WithLocation(P), RespeltGates(P)),
          Visit(Q, NoGate(Q)), Visit(WithLocation(Q), FarGates(Q)),
          Visit(WithLocation(S), FarGates(S)), Visit(WithLocation(T), FarGates(T)) }
GateRequests == SeqsUpTo(Visits, MaxStops)
\* the start of the journey, which the caller knows and does not pass on
GateStarts(visits) == {<<20, 0>>}

(***************************************************************************)
(* Two threads calling the one RouteOptimizer.  The instance has no        *)
(* attributes (__init__ only logs) and the module's only global that the   *)
(* methods read, ORTOOLS_AVAILABLE, is set at import: what a call works on *)
(* is its arguments and the local variables of its own frame.              *)
(***************************************************************************)
Threads == {1, 2}

\* the local variables of the call of thread t live in the frame of that call
InstanceAttributes(t) == 1
FrameOf(t) == t

\* a thread that is not calling
NoCall ==
    [method |-> "none", pc |-> "idle", pois |-> <<>>, start |-> <<0, 0>>,
     weather |-> NoWeather, service |-> NoService, runs |-> <<>>, result |-> <<>>]

\* a frame in which nothing is assigned yet
NoLocals ==
    [int_matrix |-> [heap |-> <<>>, int_matrix |-> <<>>, raised |-> NoException],
     route |-> <<>>, base_distance_matrix |-> <<>>, shortest_route |-> <<>>,
     fastest_route |-> <<>>, balanced_route |-> <<>>, i |-> 0,
     optimized_sequence |-> <<>>]

\* The requests of the two threads: a list for the solver and one for the
\* greedy order, a list for the three strategies on a rainy day, and two
\* sequences of two venues with gates.
ConcurrentRouteRequests ==
    {ps \in RouteRequests :
        [k \in 1 .. Len(ps) |-> ps[k].name] \in {<<"E", "C">>, <<"B", "C", "E">>}}
ConcurrentMultiRequests ==
    {ps \in MultiRequests :
        /\ [k \in 1 .. Len(ps) |-> ps[k].name] = <<"A", "F">>
        /\ \A k \in 1 .. Len(ps) : HasCoordinates(ps[k])}
ConcurrentGateRequests ==
    {visits \in GateRequests :
        /\ Len(visits) = 2
        /\ visits[1].poi.name = "S"
        /\ visits[2].poi.name = "P"
        /\ Len(visits[2].gates_data.gates) = 3}

(***************************************************************************)
(* The operations.  A call is one step from "idle"; Return drops the       *)
(* request: nothing is kept between calls.                                 *)
(***************************************************************************)
Init ==
    /\ ORTOOLS_AVAILABLE \in BOOLEAN
    /\ op = "idle"
    /\ pois = <<>>
    /\ start_location = <<0, 0>>
    /\ distance_matrix = <<>>
    /\ weather_data = NoWeather
    /\ traffic_data = NoTraffic
    /\ solver = <<>>
    /\ heap = <<>>
    /\ refs = NoRefs
    /\ solved_by = <<>>
    /\ cost_matrices = <<>>
    /\ objectives = <<>>
    /\ amap_service = NoService
    /\ raised = NoException
    /\ route_arg = <<>>
    /\ days = 0
    /\ loop = NoLoop
    /\ calls = [t \in Threads |-> NoCall]
    /\ frames = [t \in Threads |-> NoLocals]
    /\ result = <<>>

GreedyNearestNeighbor ==
    /\ op = "idle"
    /\ \E ps \in Requests, start \in Starts :
        /\ op' = "greedy_nearest_neighbor"
        /\ pois' = ps
        /\ start_location' = start
        /\ result' = greedy_nearest_neighbor(ps, start)
        /\ solved_by' = <<"greedy">>
    /\ UNCHANGED <<calls, frames, ORTOOLS_AVAILABLE, loop, objectives, route_arg, days,
                   distance_matrix, weather_data, traffic_data, solver, heap,
                   refs, cost_matrices, amap_service, raised>>

BuildDistanceMatrix ==
    /\ op = "idle"
    /\ \E ps \in Requests, start \in Starts :
        /\ op' = "build_distance_matrix"
        /\ pois' = ps
        /\ start_location' = start
        /\ result' = build_distance_matrix(ps, start)
    /\ UNCHANGED <<calls, frames, ORTOOLS_AVAILABLE, loop, objectives, route_arg, days,
                   distance_matrix, weather_data, traffic_data, solver, heap,
                   refs, solved_by, cost_matrices, amap_service, raised>>

ApplyWeights ==
    /\ op = "idle"
    /\ \E ps \in WeighRequests, weather \in WeatherInputs, traffic \in TrafficInputs :
        \E caller \in {HeapWith(build_distance_matrix(ps, <<0, 0>>))} :
        \E r \in {apply_weights(caller.heap, caller.ref, ps, weather, traffic)} :
            /\ op' = "apply_weights"
            /\ pois' = ps
            /\ distance_matrix' = ReadMatrix(caller.heap, caller.ref)
            /\ weather_data' = weather
            /\ traffic_data' = traffic
            /\ heap' = r.heap
            /\ refs' = [NoRefs EXCEPT !.arg = caller.ref, !.ret = r.ref]
            /\ result' = ReadMatrix(r.heap, r.ref)
    /\ UNCHANGED <<calls, frames, ORTOOLS_AVAILABLE, loop, objectives, route_arg, days,
                   start_location, solver, solved_by, cost_matrices,
                   amap_service, raised>>

OptimizeRoute ==
    /\ op = "idle"
    /\ \E ps \in RouteRequests \cup UnlocatedRequests, start \in Starts,
          weather \in RouteWeathers, traffic \in RouteTraffics, supplied \in BOOLEAN :
        \E caller \in {IF supplied THEN HeapWith(SuppliedMatrix(ps, start))
                       ELSE [heap |-> <<>>, ref |-> 0]} :
        \E cost \in {CostMatrix(caller.heap, ps, start, caller.ref, weather, traffic)} :
        \E run \in (IF ORTOOLS_AVAILABLE /\ Len(ps) > 2 /\ cost.raised = NoException
                    THEN SolverRuns(Len(ps) + 1) ELSE {NotRun}) :
            LET r == optimize_route(caller.heap, ps, start, cost, run)
            IN  /\ op' = "optimize_route"
                /\ pois' = ps
                /\ start_location' = start
                /\ distance_matrix' = IF supplied THEN SuppliedMatrix(ps, start) ELSE <<>>
                /\ weather_data' = weather
                /\ traffic_data' = traffic
                /\ solver' = IF run = NotRun THEN <<>> ELSE <<run>>
                /\ heap' = r.heap
                /\ refs' = [NoRefs EXCEPT !.arg = caller.ref]
                /\ solved_by' = <<r.by>>
                /\ cost_matrices' = IF run = NotRun THEN <<>> ELSE <<r.int_matrix>>
                /\ objectives' = IF run = NotRun THEN <<>> ELSE <<SolutionObjective(r, run)>>
                /\ raised' = r.raised
                /\ result' = r.route
    /\ UNCHANGED <<calls, frames, ORTOOLS_AVAILABLE, loop, route_arg, days, amap_service>>

\* runs: the backend's three runs, in the order shortest, fastest, balanced.
\* Each statement's value is bound once, in the order of the code.
OptimizeRouteMultiStrategy ==
    /\ op = "idle"
    /\ \E ps \in MultiRequests, weather \in RouteWeathers :
        \E start \in MultiStarts(ps) :
            /\ op' = "optimize_route_multi_strategy"
            /\ pois' = ps
            /\ start_location' = start
            /\ weather_data' = weather
            /\ \/ /\ ps = <<>>
                  /\ solver' = <<>>
                  /\ heap' = <<>>
                  /\ solved_by' = <<>>
                  /\ cost_matrices' = <<>>
                  /\ objectives' = <<>>
                  /\ raised' = NoException
                  /\ refs' = NoRefs
                  /\ result' = EmptyResult
               \/ /\ ps # <<>>
                  /\ build_raises(ps) # NoException
                  /\ \E fallback \in {MultiFallback(ps, start)} :
                        /\ solver' = <<>>
                        /\ heap' = <<>>
                        /\ solved_by' = <<"greedy", "greedy", "greedy">>
                        /\ cost_matrices' = <<>>
                        /\ objectives' = <<>>
                        /\ raised' = fallback.raised
                        /\ refs' = NoRefs
                        /\ result' = fallback.result
               \/ /\ ps # <<>>
                  /\ build_raises(ps) = NoException
                  /\ \E base \in {HeapWith(build_distance_matrix(ps, start))} :
                     \E cost1 \in {CostMatrix(base.heap, ps, start, base.ref,
                                              NoWeather, NoTraffic)} :
                     \E fastest \in {FastestWeightedMatrix(cost1.heap, base.ref)} :
                     \E cost2 \in {CostMatrix(fastest.heap, ps, start, fastest.ref,
                                              NoWeather, NoTraffic)} :
                     \E cost3 \in {CostMatrix(cost2.heap, ps, start, base.ref,
                                              weather, NoTraffic)} :
                     \E runs \in [1 .. 3 -> SolverRuns(Len(ps) + 1)] :
                     \E s \in {solve_with_ortools(cost1, ps, start, runs[1])},
                        f \in {solve_with_ortools(cost2, ps, start, runs[2])},
                        b \in {solve_with_ortools(cost3, ps, start, runs[3])} :
                        /\ solver' = runs
                        /\ heap' = b.heap
                        /\ solved_by' = <<s.by, f.by, b.by>>
                        /\ cost_matrices' = <<s.int_matrix, f.int_matrix, b.int_matrix>>
                        /\ objectives' = <<SolutionObjective(s, runs[1]),
                                           SolutionObjective(f, runs[2]),
                                           SolutionObjective(b, runs[3])>>
                        /\ raised' = NoException
                        /\ refs' = [NoRefs EXCEPT !.base = base.ref,
                                                  !.fastest = fastest.ref]
                        /\ result' = MultiResult(ps, start, s.route, f.route, b.route)
    /\ UNCHANGED <<calls, frames, ORTOOLS_AVAILABLE, loop, route_arg, days, distance_matrix,
                   traffic_data, amap_service>>

OptimizeGatesForSequence ==
    /\ op = "idle"
    /\ \E visits \in GateRequests, given \in BOOLEAN :
        \E start \in GateStarts(visits) :
            LET poi_sequence == [k \in 1 .. Len(visits) |-> visits[k].poi]
                service == IF given
                           THEN [given |-> TRUE,
                                 gates |-> [k \in 1 .. Len(visits) |-> visits[k].gates_data]]
                           ELSE NoService
                caller == AllocList(poi_sequence)
            IN  \E r \in {GateObjects(caller.heap, caller.ref, service)} :
                /\ op' = "optimize_gates_for_sequence"
                /\ pois' = poi_sequence
                /\ start_location' = start
                /\ amap_service' = service
                /\ heap' = r.heap
                /\ refs' = [NoRefs EXCEPT !.arg = caller.ref, !.ret = r.ref]
                /\ result' = ReadList(r.heap, r.ref)
    /\ UNCHANGED <<calls, frames, ORTOOLS_AVAILABLE, loop, objectives, route_arg, days,
                   distance_matrix, weather_data, traffic_data, solver,
                   solved_by, cost_matrices, raised>>

CalculateRouteStats ==
    /\ op = "idle"
    /\ \E ps \in StatsRequests : \E order \in StatsRoutes(ps) :
        /\ op' = "calculate_route_stats"
        /\ pois' = ps
        /\ start_location' = <<0, 0>>
        /\ route_arg' = order
        /\ result' = calculate_route_stats(order, ps, <<0, 0>>)
    /\ UNCHANGED <<calls, frames, ORTOOLS_AVAILABLE, loop, objectives, days, distance_matrix,
                   weather_data, traffic_data, solver, heap, refs, solved_by,
                   cost_matrices, amap_service, raised>>

DistributePoisToDays ==
    /\ op = "idle"
    /\ \E ps \in TripRequests, day_count \in TripDays :
        /\ op' = "distribute_pois_to_days"
        /\ pois' = ps
        /\ days' = day_count
        /\ raised' = distribute_raises(day_count)
        /\ result' = IF distribute_raises(day_count) = NoException
                     THEN distribute_pois_to_days(ps, day_count) ELSE <<>>
    /\ UNCHANGED <<calls, frames, ORTOOLS_AVAILABLE, loop, objectives, route_arg,
                   start_location, distance_matrix, weather_data, traffic_data,
                   solver, heap, refs, solved_by, cost_matrices, amap_service>>

Return ==
    /\ op # "idle"
    /\ op' = "idle"
    /\ pois' = <<>>
    /\ start_location' = <<0, 0>>
    /\ distance_matrix' = <<>>
    /\ weather_data' = NoWeather
    /\ traffic_data' = NoTraffic
    /\ solver' = <<>>
    /\ heap' = <<>>
    /\ refs' = NoRefs
    /\ solved_by' = <<>>
    /\ cost_matrices' = <<>>
    /\ objectives' = <<>>
    /\ amap_service' = NoService
    /\ raised' = NoException
    /\ route_arg' = <<>>
    /\ days' = 0
    /\ loop' = NoLoop
    /\ result' = <<>>
    /\ UNCHANGED <<calls, frames, ORTOOLS_AVAILABLE>>

Next ==
    \/ GreedyNearestNeighbor
    \/ BuildDistanceMatrix
    \/ ApplyWeights
    \/ OptimizeRoute
    \/ OptimizeRouteMultiStrategy
    \/ OptimizeGatesForSequence
    \/ CalculateRouteStats
    \/ DistributePoisToDays
    \/ Return

Spec == Init /\ [][Next]_vars

(***************************************************************************)
(* _greedy_nearest_neighbor one iteration at a time: the call enters the   *)
(* loop (or returns [] at once), each step is one pass of the loop body,   *)
(* and the call returns when unvisited is empty, or when min() raises.  A  *)
(* running call goes on running: the steps are weakly fair.                *)
(***************************************************************************)
LoopRequests == Requests \cup UnlocatedRequests

GreedyEnter ==
    /\ op = "idle"
    /\ \E ps \in LoopRequests, start \in Starts :
        /\ pois' = ps
        /\ start_location' = start
        /\ IF ps = <<>>
           THEN /\ op' = "greedy_nearest_neighbor"
                /\ loop' = NoLoop
                /\ solved_by' = <<"greedy">>
           ELSE /\ op' = "greedy_loop"
                /\ loop' = greedy_begin(ps, start)
                /\ solved_by' = <<>>
    /\ UNCHANGED <<calls, frames, ORTOOLS_AVAILABLE, objectives, route_arg, days,
                   distance_matrix, weather_data, traffic_data, solver, heap,
                   refs, cost_matrices, amap_service, raised, result>>

GreedyIterate ==
    /\ op = "greedy_loop"
    /\ loop.unvisited # {}
    /\ IF greedy_raises(pois) # NoException
       THEN /\ op' = "greedy_nearest_neighbor"
            /\ raised' = greedy_raises(pois)
            /\ UNCHANGED loop
       ELSE /\ loop' = greedy_iterate(pois, loop)
            /\ UNCHANGED <<calls, frames, op, raised>>
    /\ UNCHANGED <<calls, frames, ORTOOLS_AVAILABLE, objectives, route_arg, days, pois,
                   start_location, distance_matrix, weather_data, traffic_data,
                   solver, heap, refs, solved_by, cost_matrices, amap_service,
                   result>>

GreedyExit ==
    /\ op = "greedy_loop"
    /\ loop.unvisited = {}
    /\ op' = "greedy_nearest_neighbor"
    /\ result' = loop.route
    /\ solved_by' = <<"greedy">>
    /\ UNCHANGED <<calls, frames, ORTOOLS_AVAILABLE, objectives, route_arg, days, loop, pois,
                   start_location, distance_matrix, weather_data, traffic_data,
                   solver, heap, refs, cost_matrices, amap_service, raised>>

\* the caller takes the result; the frame of the call is gone
GreedyLeave == op = "greedy_nearest_neighbor" /\ Return

GreedyNext == GreedyEnter \/ GreedyIterate \/ GreedyExit \/ GreedyLeave

GreedySpec ==
    Init /\ [][GreedyNext]_vars /\ WF_vars(GreedyIterate) /\ WF_vars(GreedyExit)
(***************************************************************************)
(* The calls of the two threads, one statement (or one pass of a loop) at  *)
(* a time.  calls[t].pc is the statement thread t is at; the solver's      *)
(* answer to each run is kept in calls[t].runs.  The requests have         *)
(* coordinates, so that no step raises.                                    *)
(***************************************************************************)
\* thread t executes a statement: its call record and its frame change
Step(t, call, locals) ==
    /\ calls' = [calls EXCEPT ![t] = call]
    /\ frames' = [frames EXCEPT ![FrameOf(t)] = locals]
    /\ UNCHANGED <<ORTOOLS_AVAILABLE, op, pois, start_location, distance_matrix,
                   weather_data, traffic_data, solver, heap, refs, solved_by,
                   cost_matrices, objectives, amap_service, raised, route_arg,
                   days, loop, result>>

\* optimize_route: 'if not pois', then the choice of the algorithm
CallOptimizeRoute(t) ==
    /\ calls[t].pc = "idle"
    /\ \E ps \in ConcurrentRouteRequests, weather \in RouteWeathers :
        Step(t, [NoCall EXCEPT !.method = "optimize_route",
                               !.pc = IF ps = <<>> THEN "return"
                                      ELSE IF ORTOOLS_AVAILABLE /\ Len(ps) > 2
                                           THEN "matrix" ELSE "greedy",
                               !.pois = ps, !.weather = weather],
             NoLocals)

\* _solve_with_ortools, steps 1 to 3: the cost matrix
RouteMatrix(t) ==
    /\ calls[t].pc = "matrix"
    /\ Step(t, [calls[t] EXCEPT !.pc = "solve"],
            [frames[FrameOf(t)] EXCEPT
                !.int_matrix = CostMatrix(<<>>, calls[t].pois, calls[t].start, 0,
                                          calls[t].weather, NoTraffic)])

\* _solve_with_ortools, steps 4 to 8: the run of the backend and the order
\* read back, or the greedy order
RouteSolve(t) ==
    /\ calls[t].pc = "solve"
    /\ \E run \in SolverRuns(Len(calls[t].pois) + 1) :
        Step(t, [calls[t] EXCEPT !.pc = "return", !.runs = <<run>>],
             [frames[FrameOf(t)] EXCEPT
                !.route = solve_with_ortools(frames[FrameOf(t)].int_matrix,
                                             calls[t].pois, calls[t].start, run).route])

\* return self._greedy_nearest_neighbor(pois, start_location)
RouteGreedy(t) ==
    /\ calls[t].pc = "greedy"
    /\ Step(t, [calls[t] EXCEPT !.pc = "return"],
            [frames[FrameOf(t)] EXCEPT
                !.route = greedy_nearest_neighbor(calls[t].pois, calls[t].start)])

\* optimize_route_multi_strategy: 'if not pois', then the try block
CallMultiStrategy(t) ==
    /\ calls[t].pc = "idle"
    /\ \E ps \in ConcurrentMultiRequests : \E start \in MultiStarts(ps) :
        Step(t, [NoCall EXCEPT !.method = "optimize_route_multi_strategy",
                               !.pc = IF ps = <<>> THEN "return" ELSE "base",
                               !.pois = ps, !.start = start,
                               !.weather = Forecast("light_rain")],
             NoLocals)

\* base_distance_matrix = self._build_distance_matrix(pois, start_location)
MultiBase(t) ==
    /\ calls[t].pc = "base"
    /\ Step(t, [calls[t] EXCEPT !.pc = "shortest"],
            [frames[FrameOf(t)] EXCEPT
                !.base_distance_matrix =
                    build_distance_matrix(calls[t].pois, calls[t].start)])

\* One of the three runs.  The matrices are objects of this call: matrix is
\* the one handed to _solve_with_ortools, and base_distance_matrix is read
\* again after the run.
StrategyRun(t, base, matrix, weather, run) ==
    LET cost == CostMatrix(matrix.heap, calls[t].pois, calls[t].start, matrix.ref,
                           weather, NoTraffic)
        solved == solve_with_ortools(cost, calls[t].pois, calls[t].start, run)
    IN  [route |-> solved.route,
         base_distance_matrix |-> ReadMatrix(solved.heap, base.ref)]

\* shortest_route = self._solve_with_ortools(pois, start_location,
\*                                           base_distance_matrix, None, None)
MultiShortest(t) ==
    /\ calls[t].pc = "shortest"
    /\ \E run \in SolverRuns(Len(calls[t].pois) + 1) :
       \E base \in {HeapWith(frames[FrameOf(t)].base_distance_matrix)} :
       \E done \in {StrategyRun(t, base, base, NoWeather, run)} :
        Step(t, [calls[t] EXCEPT !.pc = "fastest", !.runs = Append(@, run)],
             [frames[FrameOf(t)] EXCEPT
                !.shortest_route = done.route,
                !.base_distance_matrix = done.base_distance_matrix])

\* fastest_weighted_matrix and fastest_route
MultiFastest(t) ==
    /\ calls[t].pc = "fastest"
    /\ \E run \in SolverRuns(Len(calls[t].pois) + 1) :
       \E base \in {HeapWith(frames[FrameOf(t)].base_distance_matrix)} :
       \E fastest \in {FastestWeightedMatrix(base.heap, base.ref)} :
       \E done \in {StrategyRun(t, base, fastest, NoWeather, run)} :
        Step(t, [calls[t] EXCEPT !.pc = "balanced", !.runs = Append(@, run)],
             [frames[FrameOf(t)] EXCEPT
                !.fastest_route = done.route,
                !.base_distance_matrix = done.base_distance_matrix])

\* balanced_route
MultiBalanced(t) ==
    /\ calls[t].pc = "balanced"
    /\ \E run \in SolverRuns(Len(calls[t].pois) + 1) :
       \E base \in {HeapWith(frames[FrameOf(t)].base_distance_matrix)} :
       \E done \in {StrategyRun(t, base, base, calls[t].weather, run)} :
        Step(t, [calls[t] EXCEPT !.pc = "return", !.runs = Append(@, run)],
             [frames[FrameOf(t)] EXCEPT
                !.balanced_route = done.route,
                !.base_distance_matrix = done.base_distance_matrix])

\* optimize_gates_for_sequence: 'if not poi_sequence or not amap_service',
\* then optimized_sequence = []
CallGates(t) ==
    /\ calls[t].pc = "idle"
    /\ \E visits \in ConcurrentGateRequests, given \in BOOLEAN :
        Step(t, [NoCall EXCEPT
                    !.method = "optimize_gates_for_sequence",
                    !.pc = IF visits = <<>> \/ ~given THEN "return" ELSE "gates",
                    !.pois = [k \in 1 .. Len(visits) |-> visits[k].poi],
                    !.service =
                        IF given
                        THEN [given |-> TRUE,
                              gates |-> [k \in 1 .. Len(visits) |->
                                            visits[k].gates_data]]
                        ELSE NoService],
             NoLocals)

\* the body of 'for i, poi in enumerate(poi_sequence)': the stop appended
GateStop(poi_sequence, answers, i, optimized_sequence) ==
    LET gates_data == answers[i + 1]
    IN  IF Len(gates_data.gates) <= 1
        THEN SingleGateStop(poi_sequence[i + 1], gates_data.gates)
        ELSE MultiGateStop(poi_sequence, optimized_sequence, i, gates_data)

\* one pass of the loop, which awaits get_poi_gates
GateIterate(t) ==
    /\ calls[t].pc = "gates"
    /\ frames[FrameOf(t)].i < Len(calls[t].pois)
    /\ Step(t, calls[t],
            [frames[FrameOf(t)] EXCEPT
                !.i = @ + 1,
                !.optimized_sequence =
                    Append(@, GateStop(calls[t].pois, calls[t].service.gates,
                                       frames[FrameOf(t)].i,
                                       frames[FrameOf(t)].optimized_sequence))])

\* the sequence is exhausted
GateExit(t) ==
    /\ calls[t].pc = "gates"
    /\ frames[FrameOf(t)].i >= Len(calls[t].pois)
    /\ Step(t, [calls[t] EXCEPT !.pc = "return"], frames[FrameOf(t)])

\* the value of the return statement the call is at
ReturnValue(call, locals) ==
    IF call.method = "optimize_route" THEN locals.route
    ELSE IF call.method = "optimize_route_multi_strategy"
    THEN IF call.pois = <<>> THEN EmptyResult
         ELSE MultiResult(call.pois, call.start, locals.shortest_route,
                          locals.fastest_route, locals.balanced_route)
    ELSE IF call.pois = <<>> \/ ~call.service.given THEN call.pois
    ELSE locals.optimized_sequence

\* the call returns to its caller and its frame is gone
ReturnCall(t) ==
    /\ calls[t].pc = "return"
    /\ Step(t, [calls[t] EXCEPT !.pc = "done",
                                !.result = ReturnValue(calls[t], frames[FrameOf(t)])],
            NoLocals)

\* the caller is done with the result
Forget(t) ==
    /\ calls[t].pc = "done"
    /\ Step(t, NoCall, frames[FrameOf(t)])

ConcurrentNext ==
    \E t \in Threads :
        \/ CallOptimizeRoute(t)
        \/ RouteMatrix(t)
        \/ RouteSolve(t)
        \/ RouteGreedy(t)
        \/ CallMultiStrategy(t)
        \/ MultiBase(t)
        \/ MultiShortest(t)
        \/ MultiFastest(t)
        \/ MultiBalanced(t)
        \/ CallGates(t)
        \/ GateIterate(t)
        \/ GateExit(t)
        \/ ReturnCall(t)
        \/ Forget(t)

ConcurrentSpec == Init /\ [][ConcurrentNext]_vars

(***************************************************************************)
(* Properties.                                                             *)
(***************************************************************************)
\* route holds each of the indices 0 .. n-1 exactly once
IsPermutationOfIndices(route, n) ==
    /\ Len(route) = n
    /\ {route[k] : k \in 1 .. Len(route)} = 0 .. n - 1

\* route is the nearest-neighbour order: every element is an unvisited POI at
\* minimal distance from the current location, the smallest index among equals
IsNearestNeighbourOrder(route, ps, start) ==
    /\ Len(route) = Len(ps)
    /\ \A k \in 1 .. Len(route) :
        LET current == IF k = 1 THEN start ELSE Loc(ps[route[k - 1] + 1])
            unvisited == (0 .. Len(ps) - 1) \ {route[m] : m \in 1 .. k - 1}
            d(idx) == calculate_distance(current, Loc(ps[idx + 1]))
        IN  /\ route[k] \in unvisited
            /\ \A u \in unvisited : d(route[k]) <= d(u)
            /\ \A u \in unvisited : d(u) = d(route[k]) => route[k] <= u

\* the nearest-neighbour order over the rows of cost matrix m, from node 0
RECURSIVE MatrixGreedy(_, _, _, _)
MatrixGreedy(m, unvisited, route, node) ==
    IF unvisited = {} THEN route
    ELSE LET nxt == CHOOSE i \in unvisited : \A j \in unvisited :
                        \/ m[node + 1][i + 1] < m[node + 1][j + 1]
                        \/ m[node + 1][i + 1] = m[node + 1][j + 1] /\ i <= j
         IN  MatrixGreedy(m, unvisited \ {nxt}, Append(route, nxt - 1), nxt)

Located(ps) == \A k \in 1 .. Len(ps) : HasCoordinates(ps[k])
Rainy == \E text \in RainyWeathers : weather_data = Forecast(text)
Congested == traffic_data.given /\ traffic_data.congestion
ScenarioPois == <<Poi("A", 0, 0, "scenic_spot"), Poi("B", 0, 1, "park_square"),
                  Poi("C", 1, 0, "museum")>>

\* C1: optimize_route over N POIs returns exactly the indices 0 .. N-1, each
\* once, on the greedy path and on the read-back of a solver solution; there
\* the k-th output is the k-th node after the start, less one, and the start
\* node 0 is left out.
C1_RouteIsPermutation ==
    (op = "optimize_route" /\ raised = NoException) =>
        /\ IsPermutationOfIndices(result, Len(pois))
        /\ solved_by = <<"ortools">> =>
              /\ solver[1].tour[1] = 0
              /\ \A k \in 1 .. Len(pois) : result[k] = solver[1].tour[k + 1] - 1

C1_Witness ==
    /\ op = "optimize_route"
    /\ raised = NoException
    /\ solved_by = <<"ortools">>
    /\ Len(pois) = 3
    /\ result = <<2, 0, 1>>

\* C2: when the heuristic solver is asked for the order of N > 0 POIs and it
\* returns no solution, raises, or the backend is missing, the call returns
\* the nearest-neighbour order of the same POIs from the same start: never
\* an empty or partial list.
C2_FallbackIsGreedyOrder ==
    /\ (op = "optimize_route" /\ pois # <<>> /\ Located(pois)
            /\ (~ORTOOLS_AVAILABLE
                \/ (solver # <<>> /\ solver[1].kind \in {"none", "raise"})))
          => /\ raised = NoException
             /\ IsNearestNeighbourOrder(result, pois, start_location)
    /\ (op = "optimize_route_multi_strategy" /\ pois # <<>> /\ Located(pois)) =>
          /\ raised = NoException
          /\ solver[1].kind # "solution"
                => IsNearestNeighbourOrder(result.shortest.route, pois, start_location)
          /\ solver[2].kind # "solution"
                => IsNearestNeighbourOrder(result.fastest.route, pois, start_location)
          /\ solver[3].kind # "solution"
                => IsNearestNeighbourOrder(result.balanced.route, pois, start_location)

C2_Witness ==
    /\ op = "optimize_route"
    /\ raised = NoException
    /\ solver = <<Run("none", <<>>)>>
    /\ Len(pois) = 3
    /\ result = <<1, 2, 0>>

\* C3: the greedy fallback appends, at every step, an unvisited POI at minimal
\* distance from the current location (the start, then the POI last
\* appended), the smallest input index among equally near ones; from
\* S(-1,-1) over A(0,0), B(0,1), C(1,0) the order is [A, B, C].
C3_GreedyPicksNearest ==
    op = "greedy_nearest_neighbor" =>
        /\ IsNearestNeighbourOrder(result, pois, start_location)
        /\ (pois = ScenarioPois /\ start_location = <<-1, -1>>) => result = <<0, 1, 2>>

C3_Witness ==
    /\ op = "greedy_nearest_neighbor"
    /\ pois = ScenarioPois
    /\ start_location = <<-1, -1>>
    /\ result = <<0, 1, 2>>
    /\ calculate_distance(Loc(pois[1]), Loc(pois[2]))
         = calculate_distance(Loc(pois[1]), Loc(pois[3]))

\* C4 (as claimed): on the greedy path of optimize_route the order is the
\* nearest-neighbour order over the weighted cost matrix the solver would be
\* given (the supplied or built matrix with the weather and traffic weights).
C4_GreedyMinimisesCostMatrix ==
    (op = "optimize_route" /\ solved_by = <<"greedy">> /\ Located(pois)) =>
        result = MatrixGreedy(
                    WeightedMatrix(IF distance_matrix = <<>>
                                   THEN build_distance_matrix(pois, start_location)
                                   ELSE distance_matrix,
                                   pois, weather_data, traffic_data),
                    1 .. Len(pois), <<>>, 0)

\* C5 (as claimed): an order comes from the heuristic solver only when N > 2
\* and the backend is available, in optimize_route and in each strategy of
\* optimize_route_multi_strategy.
C5_HeuristicOnlyAboveTwo ==
    op \in {"optimize_route", "optimize_route_multi_strategy"} =>
        \A k \in 1 .. Len(solved_by) :
            solved_by[k] = "ortools" => (Len(pois) > 2 /\ ORTOOLS_AVAILABLE)

\* C6 (as claimed): under precipitation (traffic not congested) every
\* off-diagonal cell with input distance d costs d, times 1.5 if its
\* destination POI is outdoor, times 1.3 if d < 1000.
C6_WeatherLawOnInputDistance ==
    (op = "apply_weights" /\ Rainy /\ ~Congested) =>
        \A i, j \in 1 .. Len(distance_matrix) : i # j =>
            LET d == distance_matrix[i][j]
                outdoor == IF j > 1 /\ IsOutdoor(pois[j - 1])
                           THEN MulRat(d, OUTDOOR_FACTOR) ELSE d
            IN  result[i][j] = IF d < Metres(WALK_LIMIT)
                               THEN MulRat(outdoor, WALK_FACTOR) ELSE outdoor

\* C7 (as claimed): under congestion with delay factor f a cell is multiplied
\* by f exactly when its distance in the input matrix exceeds 5000 m, also
\* when a rainy weather context is supplied in the same call.
C7_TrafficLawOnInputDistance ==
    (op = "apply_weights" /\ Congested) =>
        LET weather_only == WeightedMatrix(distance_matrix, pois, weather_data, NoTraffic)
        IN  \A i, j \in 1 .. Len(distance_matrix) : i # j =>
                result[i][j] = IF distance_matrix[i][j] > Metres(DRIVE_LIMIT)
                               THEN MulRat(weather_only[i][j], traffic_data.delay_factor)
                               ELSE weather_only[i][j]

\* C8: _apply_weights leaves the caller's matrix as it was, cell for cell,
\* and returns a matrix of the same shape made of other list objects.
C8_InputMatrixNotMutated ==
    op = "apply_weights" =>
        /\ ReadMatrix(heap, refs.arg) = distance_matrix
        /\ refs.ret # refs.arg
        /\ \A i, k \in 1 .. Len(heap[refs.arg]) : heap[refs.ret][i] # heap[refs.arg][k]
        /\ Len(result) = Len(distance_matrix)
        /\ \A i \in 1 .. Len(result) : Len(result[i]) = Len(distance_matrix[i])

C8_Witness ==
    /\ op = "apply_weights"
    /\ Len(pois) = 2
    /\ Rainy /\ Congested
    /\ \E i, j \in 1 .. 3 : result[i][j] # distance_matrix[i][j]

\* C9: without a weather and a traffic context, or with weather that has no
\* precipitation and traffic that is not congested, the weighted matrix
\* equals the input matrix; under every context the diagonal stays 0.
C9_NeutralContextsChangeNothing ==
    op = "apply_weights" =>
        /\ (~Rainy /\ ~Congested) => result = distance_matrix
        /\ \A i \in 1 .. Len(result) : result[i][i] = 0

C9_Witness ==
    /\ op = "apply_weights"
    /\ weather_data = Forecast("sunny")
    /\ traffic_data = Traffic(FALSE, <<20, 10>>)
    /\ Len(pois) = 2
    /\ result[1][2] > Metres(DRIVE_LIMIT)
    /\ result[1][3] < Metres(WALK_LIMIT)

\* C10: _build_distance_matrix returns an (N+1) x (N+1) matrix, row and
\* column 0 the start, the diagonal 0, every other cell the distance between
\* its two locations; it is symmetric and has no negative entry.
C10_DistanceMatrixIsPairwise ==
    op = "build_distance_matrix" =>
        LET n == Len(pois) + 1
            location(i) == IF i = 1 THEN start_location ELSE Loc(pois[i - 1])
        IN  /\ Len(result) = n
            /\ \A i \in 1 .. n : Len(result[i]) = n /\ result[i][i] = 0
            /\ \A i, j \in 1 .. n :
                /\ i # j => result[i][j] = calculate_distance(location(i), location(j))
                /\ result[i][j] = result[j][i]
                /\ result[i][j] >= 0

C10_Witness ==
    /\ op = "build_distance_matrix"
    /\ Len(pois) = 3
    /\ result[1][2] > 0
    /\ result[2][3] > result[2][4]
    /\ result[3][4] > 0

\* C11 (as claimed): when a POI of the input has no lng or no lat,
\* optimize_route and optimize_route_multi_strategy raise to the caller and
\* return no order, on every solver path and with or without a supplied
\* distance matrix.
C11_MissingCoordinatesRaise ==
    (op \in {"optimize_route", "optimize_route_multi_strategy"} /\ ~Located(pois))
        => raised # NoException

\* C12: an empty POI list is answered without an exception and without a
\* solver or greedy run: optimize_route returns the empty order, and
\* optimize_route_multi_strategy returns exactly the strategies shortest,
\* fastest and balanced, each with an empty route, distance 0 and duration 0.
C12_EmptyListIsNotAnError ==
    /\ (op = "optimize_route" /\ pois = <<>>) =>
          /\ raised = NoException
          /\ result = <<>>
          /\ solver = <<>>
          /\ solved_by = <<"nothing">>
    /\ (op = "optimize_route_multi_strategy" /\ pois = <<>>) =>
          /\ raised = NoException
          /\ DOMAIN result = {"shortest", "fastest", "balanced"}
          /\ \A name \in DOMAIN result :
                result[name] = [route |-> <<>>, total_distance |-> 0, total_duration |-> 0]
          /\ solver = <<>>
          /\ solved_by = <<>>

C12_Witness ==
    /\ op = "optimize_route_multi_strategy"
    /\ pois = <<>>
    /\ ORTOOLS_AVAILABLE
    /\ result.balanced.route = <<>>

GateRun == op = "optimize_gates_for_sequence"
GatesOf(k) == amap_service.gates[k].gates
AllApart(gates) ==
    \A a, b \in 1 .. Len(gates) :
        a # b => ParseLocation(gates[a].location) # ParseLocation(gates[b].location)
Position(gate) == <<gate.lng, gate.lat>>

\* C13: optimize_gates_for_sequence returns as many stops as it was given, in
\* the same order: the k-th output is the k-th input POI with every field it
\* had, plus at most the two fields entry_gate and exit_gate, each one gate.
C13_StopsKeptInOrder ==
    GateRun =>
        /\ Len(result) = Len(pois)
        /\ \A k \in 1 .. Len(pois) :
              /\ DOMAIN pois[k] \subseteq DOMAIN result[k]
              /\ DOMAIN result[k] \subseteq DOMAIN pois[k] \cup {"entry_gate", "exit_gate"}
              /\ \A key \in DOMAIN pois[k] : result[k][key] = pois[k][key]
              /\ \A key \in DOMAIN result[k] \ DOMAIN pois[k] :
                    {"location", "lng", "lat"} \subseteq DOMAIN result[k][key]

C13_Witness ==
    /\ GateRun
    /\ amap_service.given
    /\ Len(pois) = 3
    /\ <<pois[1].name, pois[2].name, pois[3].name>> = <<"Q", "P", "S">>
    /\ "entry_gate" \notin DOMAIN result[1]
    /\ {"entry_gate", "exit_gate"} \subseteq DOMAIN result[2] \cap DOMAIN result[3]
    /\ result[2].entry_gate.location = LocationText(3, 0, 0)
    /\ result[2].exit_gate.location = LocationText(-3, 0, 0)
    /\ result[3].entry_gate = result[3].exit_gate

\* C14: a stop for which the lookup answers exactly one gate gets, at any
\* position of the sequence, an entry gate and an exit gate at the same place.
C14_OneGateEntersAndLeavesThere ==
    (GateRun /\ amap_service.given) =>
        \A k \in 1 .. Len(pois) :
            Len(GatesOf(k)) = 1 =>
                /\ {"entry_gate", "exit_gate"} \subseteq DOMAIN result[k]
                /\ Position(result[k].entry_gate) = Position(result[k].exit_gate)
                /\ result[k].entry_gate.location = result[k].exit_gate.location

C14_Witness ==
    /\ GateRun
    /\ amap_service.given
    /\ Len(pois) = 3
    /\ Len(GatesOf(1)) = 2
    /\ Len(GatesOf(2)) = 1
    /\ Len(GatesOf(3)) = 3
    /\ "location" \in DOMAIN pois[2]
    /\ Position(result[2].entry_gate) = Loc(pois[2])
    /\ Position(result[2].exit_gate) = Loc(pois[2])

\* C15 (as claimed): a stop for which the lookup answers no gate gets an
\* entry gate and an exit gate, both at the POI's own coordinates.
C15_NoGateUsesOwnCoordinate ==
    (GateRun /\ amap_service.given) =>
        \A k \in 1 .. Len(pois) :
            GatesOf(k) = <<>> =>
                /\ {"entry_gate", "exit_gate"} \subseteq DOMAIN result[k]
                /\ Position(result[k].entry_gate) = Loc(pois[k])
                /\ Position(result[k].exit_gate) = Loc(pois[k])

\* where stop k was left: its exit gate, or its own coordinates without one
ResolvedExit(k) ==
    IF "exit_gate" \in DOMAIN result[k] THEN Position(result[k].exit_gate) ELSE Loc(pois[k])
\* chosen is one of the gates, and no gate is nearer to the location
IsNearestGateTo(chosen, gates, location) ==
    \E a \in 1 .. Len(gates) :
        /\ GateEntry(gates[a]) = chosen
        /\ \A b \in 1 .. Len(gates) :
              GateDistance(gates[a], location) <= GateDistance(gates[b], location)

\* C16 (as claimed): the entry gate of a stop with two or more gates is one
\* of its gates nearest to where the stop before was left (its exit gate, or
\* its own coordinates without one), and at the first stop one of its gates
\* nearest to the start of the journey.
C16_EntryNearestToPreviousOrStart ==
    (GateRun /\ amap_service.given) =>
        \A k \in 1 .. Len(pois) :
            Len(GatesOf(k)) >= 2 =>
                IsNearestGateTo(result[k].entry_gate, GatesOf(k),
                                IF k = 1 THEN start_location ELSE ResolvedExit(k - 1))

\* C16 (amended): the entry gate of a stop with two or more gates is, after
\* the first stop, one of its gates nearest to where the stop before was left
\* (its exit gate as finally chosen, or its own coordinates without one), and
\* at the first stop the first gate of the lookup's answer.
C16_EntryNearestToPreviousOrFirstGate ==
    (GateRun /\ amap_service.given) =>
        \A k \in 1 .. Len(pois) :
            Len(GatesOf(k)) >= 2 =>
                IF k = 1
                THEN result[k].entry_gate = GateEntry(GatesOf(k)[1])
                ELSE IsNearestGateTo(result[k].entry_gate, GatesOf(k), ResolvedExit(k - 1))

\* T is entered and, by forced traversal, left by its east gate; P is then
\* entered by its east gate, though its west gate is as near to T itself.
C16_Witness ==
    /\ GateRun
    /\ amap_service.given
    /\ Len(pois) = 2
    /\ pois[1].name = "T" /\ pois[2].name = "P"
    /\ Len(GatesOf(1)) = 2 /\ Len(GatesOf(2)) = 2
    /\ result[1].entry_gate.location = LocationText(-3, 10, 0)
    /\ result[1].exit_gate.location = LocationText(3, 10, 0)
    /\ result[2].entry_gate.location = LocationText(3, 0, 0)
    /\ start_location = <<20, 0>>

\* the greatest distance between two gates of a venue
Separation(gates) ==
    LET between == {calculate_distance(ParseLocation(gates[a].location),
                                       ParseLocation(gates[b].location)) :
                        a, b \in 1 .. Len(gates)}
    IN  CHOOSE d \in between : \A e \in between : e <= d
LargeVenue(gates) == Len(gates) >= 2 /\ Separation(gates) > Metres(500)
\* forced traversal is due at stop k: a large venue before the last stop,
\* entered by a gate that is also nearest to the next stop
TraversalForced(k) ==
    /\ k < Len(pois)
    /\ LargeVenue(GatesOf(k))
    /\ IsNearestGateTo(result[k].entry_gate, GatesOf(k), Loc(pois[k + 1]))

\* C17: where forced traversal is not due, the exit gate of a stop with two
\* or more gates is one of its gates nearest to the lng/lat of the next stop
\* (whatever gates that stop has); at the last stop it is the entry gate.
C17_ExitNearestToNextStop ==
    (GateRun /\ amap_service.given) =>
        \A k \in 1 .. Len(pois) :
            (Len(GatesOf(k)) >= 2 /\ ~TraversalForced(k)) =>
                IF k = Len(pois)
                THEN result[k].exit_gate = result[k].entry_gate
                ELSE IsNearestGateTo(result[k].exit_gate, GatesOf(k), Loc(pois[k + 1]))

C17_Witness ==
    /\ GateRun
    /\ amap_service.given
    /\ Len(pois) = 3
    /\ <<pois[1].name, pois[2].name, pois[3].name>> = <<"Q", "P", "S">>
    /\ Len(GatesOf(2)) = 2 /\ LargeVenue(GatesOf(2)) /\ ~TraversalForced(2)
    /\ Len(GatesOf(3)) = 2
    /\ result[2].entry_gate.location = LocationText(3, 0, 0)
    /\ result[2].exit_gate.location = LocationText(-3, 0, 0)
    /\ result[3].entry_gate.location = LocationText(-17, 0, 0)
    /\ result[3].exit_gate = result[3].entry_gate

\* C18 (as claimed): a stop whose venue has two or more gates, two of them
\* more than 500 m apart, is entered and left at different places, wherever
\* it stands in the sequence.
C18_LargeVenueIsTraversed ==
    (GateRun /\ amap_service.given) =>
        \A k \in 1 .. Len(pois) :
            LargeVenue(GatesOf(k)) =>
                Position(result[k].entry_gate) # Position(result[k].exit_gate)

\* the gate that nearest-gate selection picks: the first of the nearest ones
NaivePick(gates, location) ==
    gates[CHOOSE a \in 1 .. Len(gates) :
            /\ IsNearestGateTo(GateEntry(gates[a]), gates, location)
            /\ \A b \in 1 .. a - 1 :
                  ~IsNearestGateTo(GateEntry(gates[b]), gates, location)]
\* nearest-gate selection gives stop k the same gate to enter and to leave
NaiveConflict(k) ==
    /\ k < Len(pois)
    /\ Len(GatesOf(k)) >= 2
    /\ AllApart(GatesOf(k))
    /\ result[k].entry_gate = GateEntry(NaivePick(GatesOf(k), Loc(pois[k + 1])))

\* C19: at a stop before the last, with two or more gates at different
\* places, for which nearest-gate selection gives the same gate to enter and
\* to leave: if two gates are more than 500 m apart the exit is the nearest
\* of the other gates to the next stop, and differs from the entry; if not,
\* the exit stays the entry gate.
C19_ForcedTraversalAboveThreshold ==
    (GateRun /\ amap_service.given) =>
        \A k \in 1 .. Len(pois) :
            NaiveConflict(k) =>
                LET gates == GatesOf(k)
                    next == Loc(pois[k + 1])
                    pick == NaivePick(gates, next)
                    others == SelectSeq(gates, LAMBDA g : g # pick)
                IN  IF Separation(gates) > Metres(500)
                    THEN /\ result[k].exit_gate = GateEntry(NaivePick(others, next))
                         /\ Position(result[k].exit_gate) # Position(result[k].entry_gate)
                    ELSE result[k].exit_gate = result[k].entry_gate

\* P between two visits of Q: entered from the east, its east gate is also
\* the nearest to the next stop, and the exit becomes the west gate
C19_Witness ==
    /\ GateRun
    /\ amap_service.given
    /\ Len(pois) = 3
    /\ <<pois[1].name, pois[2].name, pois[3].name>> = <<"Q", "P", "Q">>
    /\ NaiveConflict(2)
    /\ Len(GatesOf(2)) = 3
    /\ result[2].entry_gate.location = LocationText(3, 0, 0)
    /\ result[2].exit_gate.location = LocationText(0, 4, 0)

StrategyNames == <<"shortest", "fastest", "balanced">>

\* C20: optimize_route_multi_strategy over POIs with coordinates returns the
\* three strategies whatever each solver run did: every route is a
\* permutation of the indices, a strategy whose run found a solution has that
\* solution's order, and a strategy whose run failed has the greedy order.
C20_FailureReplacesOneStrategy ==
    (op = "optimize_route_multi_strategy" /\ pois # <<>> /\ Located(pois)) =>
        /\ raised = NoException
        /\ DOMAIN result = {"shortest", "fastest", "balanced"}
        /\ \A j \in 1 .. 3 :
              LET route == result[StrategyNames[j]].route
              IN  /\ IsPermutationOfIndices(route, Len(pois))
                  /\ IF solver[j].kind = "solution"
                     THEN \A k \in 1 .. Len(pois) : route[k] = solver[j].tour[k + 1] - 1
                     ELSE route = greedy_nearest_neighbor(pois, start_location)

C20_Witness ==
    /\ op = "optimize_route_multi_strategy"
    /\ Len(pois) = 2
    /\ Located(pois)
    /\ solver[1] = Run("solution", <<0, 2, 1>>)
    /\ solver[2].kind = "raise"
    /\ solver[3] = Run("solution", <<0, 2, 1>>)
    /\ result.shortest.route = <<1, 0>>
    /\ result.fastest.route = <<0, 1>>
    /\ result.balanced.route = <<1, 0>>

StatsRun == op = "calculate_route_stats"
\* leg k of the route: from the start, or from the stop before, to stop k
LegFrom(k) == IF k = 1 THEN start_location ELSE Loc(pois[route_arg[k - 1] + 1])
LegLength(k) == calculate_distance(LegFrom(k), Loc(pois[route_arg[k] + 1]))
RECURSIVE SumTo(_, _)
SumTo(f, n) == IF n = 0 THEN 0 ELSE SumTo(f, n - 1) + f[n]
\* seconds (in 1/FIX s) for d (in 1/FIX m) at the speed of the claim
ClaimedLegDuration(d) ==
    IF d < Metres(1000) THEN MulRat(d, <<72, 100>>)        \* 5 km/h: 0.72 s/m
    ELSE IF d <= Metres(5000) THEN MulRat(d, <<18, 100>>)   \* 20 km/h: 0.18 s/m
    ELSE MulRat(d, <<9, 100>>)                              \* 40 km/h: 0.09 s/m

\* C21 (as claimed): _calculate_route_stats times a leg of d metres at 5 km/h
\* if d < 1000, at 20 km/h if 1000 <= d <= 5000 (5000 included), at 40 km/h
\* only if d > 5000, and total_duration is the sum of the legs' seconds.
C21_LegSpeedByLength ==
    StatsRun =>
        result.total_duration
            = SumTo([k \in 1 .. Len(route_arg) |-> ClaimedLegDuration(LegLength(k))],
                    Len(route_arg))

\* C22: for a route that holds every POI index once, total_distance is the
\* sum of the legs start -> first stop -> ... -> last stop in route order,
\* one leg per stop and none back to the start; it is 0 for the empty route.
C22_TotalDistanceIsOpenPath ==
    (StatsRun /\ IsPermutationOfIndices(route_arg, Len(pois))) =>
        /\ result.total_distance
              = SumTo([k \in 1 .. Len(route_arg) |-> LegLength(k)], Len(route_arg))
        /\ route_arg = <<>> => result.total_distance = 0

\* 6000 m out to the first stop, 5200 m back to the second, 200 m to the third
C22_Witness ==
    /\ StatsRun
    /\ Len(pois) = 3
    /\ route_arg = <<2, 0, 1>>
    /\ <<LegLength(1), LegLength(2), LegLength(3)>>
          = <<Metres(6000), Metres(5200), Metres(200)>>
    /\ result.total_distance = Metres(11400)

\* optimize_route_multi_strategy reached its three solver runs
MultiRun == op = "optimize_route_multi_strategy" /\ pois # <<>> /\ Located(pois)
BaseMatrix == build_distance_matrix(pois, start_location)

\* C23: the cost matrices handed to the solver are, for shortest, the
\* distance matrix as built; for fastest, that matrix with exactly the cells
\* above 5000 m multiplied by 0.7; for balanced, that matrix under the
\* weather weights of the call's weather context and no traffic weights.
C23_StrategyCostMatrices ==
    MultiRun =>
        \A base \in {BaseMatrix} :
            /\ cost_matrices[1] = ToIntMatrix(base)
            /\ cost_matrices[2] =
                  ToIntMatrix([i \in 1 .. Len(base) |-> [j \in 1 .. Len(base) |->
                      IF base[i][j] > Metres(5000)
                      THEN (base[i][j] \div 10) * 7 ELSE base[i][j]]])
            /\ cost_matrices[3] =
                  ToIntMatrix(WeightedMatrix(base, pois, weather_data, NoTraffic))

\* from F to the outdoor A, 5080 m: 5080, 3556 and, under rain, 7620 m
C23_Witness ==
    /\ MultiRun
    /\ Rainy
    /\ Len(pois) = 2
    /\ <<pois[1].name, pois[2].name>> = <<"A", "F">>
    /\ cost_matrices[1][3][2] = 5080 * IntScale
    /\ cost_matrices[2][3][2] = 3556 * IntScale
    /\ cost_matrices[3][3][2] = 7620 * IntScale
    /\ cost_matrices[2][2][1] = 0

\* C26: when optimize_route_multi_strategy has made its three runs, the base
\* distance matrix is cell for cell as it was built: the fastest matrix is
\* made of other list objects, and the matrix given to the balanced run is
\* the one that was given to the shortest run.
C26_BaseMatrixKept ==
    MultiRun =>
        /\ ReadMatrix(heap, refs.base) = BaseMatrix
        /\ refs.fastest # refs.base
        /\ \A i, k \in 1 .. Len(heap[refs.base]) :
              heap[refs.fastest][i] # heap[refs.base][k]
        /\ ~Rainy => cost_matrices[3] = cost_matrices[1]

C26_Witness ==
    /\ MultiRun
    /\ ~Rainy
    /\ Len(pois) = 2
    /\ <<pois[1].name, pois[2].name>> = <<"F", "A">>
    /\ ReadMatrix(heap, refs.base)[1][3] = Metres(5080)
    /\ ReadMatrix(heap, refs.fastest)[1][3] = Metres(3556)
    /\ cost_matrices[3][1][3] = 5080 * IntScale

RECURSIVE Flatten(_)
Flatten(lists) == IF lists = <<>> THEN <<>> ELSE Head(lists) \o Flatten(Tail(lists))

\* C27: for days >= 1, _distribute_pois_to_days returns exactly `days` lists
\* which, put end to end, are the input list; the first (total mod days)
\* days hold (total div days) + 1 POIs and the others (total div days), so
\* that two days differ by at most one POI.
C27_DaysAreEvenSlices ==
    (op = "distribute_pois_to_days" /\ days >= 1) =>
        /\ raised = NoException
        /\ Len(result) = days
        /\ Flatten(result) = pois
        /\ \A d \in 1 .. days :
              Len(result[d]) = (Len(pois) \div days)
                                  + (IF d <= Len(pois) % days THEN 1 ELSE 0)
        /\ \A d, e \in 1 .. days : Len(result[d]) - Len(result[e]) \in {-1, 0, 1}

\* five POIs over three days: 2, 2 and 1
C27_Witness ==
    /\ op = "distribute_pois_to_days"
    /\ Len(pois) = 5
    /\ days = 3
    /\ result = <<SubSeq(pois, 1, 2), SubSeq(pois, 3, 4), SubSeq(pois, 5, 5)>>

\* C29 (as claimed): every dictionary optimize_route_multi_strategy returns,
\* for POIs, after a failure or for an empty list, has under shortest,
\* fastest and balanced the fields route, total_distance, total_duration and
\* ordered_pois, ordered_pois being the POIs in route order.
C29_EveryResultHasOrderedPois ==
    (op = "optimize_route_multi_strategy" /\ raised = NoException) =>
        /\ {"shortest", "fastest", "balanced"} \subseteq DOMAIN result
        /\ \A name \in {"shortest", "fastest", "balanced"} :
              /\ {"route", "total_distance", "total_duration", "ordered_pois"}
                    \subseteq DOMAIN result[name]
              /\ Len(result[name].ordered_pois) = Len(result[name].route)
              /\ \A k \in 1 .. Len(result[name].route) :
                    result[name].ordered_pois[k] = pois[result[name].route[k] + 1]

\* C30: optimize_gates_for_sequence leaves its input as it was: the input
\* list holds the same dictionaries in the same order, none of them has
\* gained or changed a field, the gates being stored on copies in a new
\* list; without a lookup service the input list itself is returned, with
\* no gate field added.
C30_GateInputUnchanged ==
    GateRun =>
        /\ heap[refs.arg] = [k \in 1 .. Len(pois) |-> k]
        /\ \A k \in 1 .. Len(pois) : heap[k] = pois[k]
        /\ ReadList(heap, refs.ret) = result
        /\ IF amap_service.given /\ pois # <<>>
           THEN /\ refs.ret # refs.arg
                /\ \A k \in 1 .. Len(pois) : heap[refs.ret][k] > refs.arg
           ELSE /\ refs.ret = refs.arg
                /\ result = pois

C30_Witness ==
    /\ GateRun
    /\ amap_service.given
    /\ Len(pois) = 3
    /\ \A k \in 1 .. 3 :
          /\ Len(GatesOf(k)) >= 1
          /\ "entry_gate" \notin DOMAIN heap[k]
          /\ "exit_gate" \in DOMAIN result[k]
    /\ heap[refs.ret] = <<5, 6, 7>>

\* C28: the greedy loop over N POIs with coordinates ends: every iteration
\* takes one index out of unvisited and appends it to the route, and the
\* call returns, after exactly N iterations, with unvisited empty and the N
\* indices in the route.
C28_GreedyLoopTerminates ==
    /\ [][(op = "greedy_loop" /\ op' = "greedy_loop") =>
            \E idx \in loop.unvisited :
                /\ loop'.unvisited = loop.unvisited \ {idx}
                /\ loop'.route = Append(loop.route, idx)]_vars
    /\ []((op = "greedy_loop" /\ Located(pois)) =>
            Len(loop.route) + Cardinality(loop.unvisited) = Len(pois))
    /\ []((op = "greedy_nearest_neighbor" /\ Located(pois)) =>
            /\ loop.unvisited = {}
            /\ IsPermutationOfIndices(result, Len(pois)))
    /\ (op = "greedy_loop" /\ Located(pois)) ~> (op = "greedy_nearest_neighbor")

C28_Witness ==
    /\ op = "greedy_nearest_neighbor"
    /\ pois = ScenarioPois
    /\ start_location = <<-1, -1>>
    /\ loop.unvisited = {}
    /\ loop.route = <<0, 1, 2>>
    /\ loop.current_location = <<1, 0>>
    /\ result = <<0, 1, 2>>

\* the order a run returned: the result of optimize_route, or of strategy j
ReturnedRoute(j) ==
    IF op = "optimize_route" THEN result ELSE result[StrategyNames[j]].route
\* cost(0, p1) + cost(p1, p2) + ... + cost(pN, 0) over cost matrix c, for the
\* nodes p1 .. pN in the order of tour, and the same without its last term
ClosedTourCost(c, tour) ==
    LET N == Len(tour) - 1
    IN  c[1][tour[2] + 1]
          + SumTo([k \in 1 .. N - 1 |-> c[tour[k + 1] + 1][tour[k + 2] + 1]], N - 1)
          + c[tour[N + 1] + 1][1]
OpenCost(c, tour) == ClosedTourCost(c, tour) - c[tour[Len(tour)] + 1][1]

\* C25: the solver is given a closed tour from node 0 back to node 0: the
\* objective value of the order p1 .. pN it returns is cost(0, p1) + the
\* costs cost(pk, pk+1) + cost(pN, 0), while the order read back is the
\* open path p1 .. pN, without node 0 and without the return.
C25_ObjectiveIsClosedTour ==
    op \in {"optimize_route", "optimize_route_multi_strategy"} =>
        \A j \in 1 .. Len(solved_by) :
            solved_by[j] = "ortools" =>
                /\ objectives[j] = <<ClosedTourCost(cost_matrices[j], solver[j].tour)>>
                /\ ReturnedRoute(j)
                      = [k \in 1 .. Len(pois) |-> solver[j].tour[k + 1] - 1]

\* B, then the far stop E, then C: a cheapest closed tour, the return from C
\* being part of its objective, and not a cheapest open path
C25_Witness ==
    /\ op = "optimize_route"
    /\ solved_by = <<"ortools">>
    /\ <<pois[1].name, pois[2].name, pois[3].name>> = <<"B", "C", "E">>
    /\ result = <<0, 2, 1>>
    /\ cost_matrices[1][3][1] > 0
    /\ \A t \in Tours(4) : objectives[1][1] <= ClosedTourCost(cost_matrices[1], t)
    /\ \E t \in Tours(4) :
          OpenCost(cost_matrices[1], t) < OpenCost(cost_matrices[1], solver[1].tour)

\* what the call returns when it runs alone, the backend answering the same
MultiAlone(ps, start, weather, runs) ==
    LET base == HeapWith(build_distance_matrix(ps, start))
        cost1 == CostMatrix(base.heap, ps, start, base.ref, NoWeather, NoTraffic)
        fastest == FastestWeightedMatrix(cost1.heap, base.ref)
        cost2 == CostMatrix(fastest.heap, ps, start, fastest.ref, NoWeather, NoTraffic)
        cost3 == CostMatrix(cost2.heap, ps, start, base.ref, weather, NoTraffic)
    IN  MultiResult(ps, start,
                    solve_with_ortools(cost1, ps, start, runs[1]).route,
                    solve_with_ortools(cost2, ps, start, runs[2]).route,
                    solve_with_ortools(cost3, ps, start, runs[3]).route)
Alone(call) ==
    IF call.method = "optimize_route"
    THEN optimize_route(<<>>, call.pois, call.start,
                        CostMatrix(<<>>, call.pois, call.start, 0, call.weather,
                                   NoTraffic),
                        IF call.runs = <<>> THEN NotRun ELSE call.runs[1]).route
    ELSE IF call.method = "optimize_route_multi_strategy"
    THEN MultiAlone(call.pois, call.start, call.weather, call.runs)
    ELSE optimize_gates_for_sequence(call.pois, call.service)

\* C24: the engine keeps no state between or across calls: however the
\* statements of two calls on the same RouteOptimizer interleave, each call,
\* given its own inputs and its own answers of the backend, returns what it
\* returns when it runs alone, whatever calls were made before.
C24_CallsDoNotInterfere ==
    \A t \in Threads :
        /\ calls[t].pc = "return"
              => ReturnValue(calls[t], frames[FrameOf(t)]) = Alone(calls[t])
        /\ calls[t].pc = "done" => calls[t].result = Alone(calls[t])

\* Both calls are in progress at once, each at its return statement: the
\* three strategies of thread 1 ran to the end while thread 2 had the
\* backend order its three POIs
C24_Witness ==
    /\ calls[1].pc = "return"
    /\ calls[1].method = "optimize_route_multi_strategy"
    /\ Len(calls[1].runs) = 3
    /\ calls[2].pc = "return"
    /\ calls[2].method = "optimize_route"
    /\ calls[2].runs # <<>>
    /\ calls[2].runs[1].kind = "solution"
    /\ frames[FrameOf(2)].route # frames[FrameOf(1)].shortest_route
====
